---- MODULE Spec2Model ----
(***************************************************************************)
(* Model of the 3D product viewer: the module-level viewer state of        *)
(* src/viewer.ts (desktop) and src/viewer.mobile.ts (mobile), and the      *)
(* React component of src/ui/App.tsx that drives it (stage sequencing,     *)
(* loads, wheel routing).                                                  *)
(*                                                                         *)
(* Conventions of the model                                                *)
(*  - strings that the code inspects character by character (part names)   *)
(*    are tuples of one-character strings; clip names, which the code only *)
(*    uses as keys, are plain strings;                                     *)
(*  - object references that may be null are naturals, 0 standing for      *)
(*    null: a scene root is identified by the number of the loadGLB call   *)
(*    that decoded it;                                                     *)
(*  - clip time is counted in units of Eps, the 1e-6 s the code uses as    *)
(*    its guard epsilon;                                                   *)
(*  - the camera-to-target distance is kept as its logarithm, in units of  *)
(*    ln(EXPLODED_ZOOM_FACTOR)/ZoomUnits, so that multiplying the distance *)
(*    by a factor is an addition and the geometric interpolation of        *)
(*    dollyScaleSmooth is exact; distance 0 is the distance                *)
(*    fitCameraToObject chooses for the "bed" asset;                       *)
(*  - a 3D point is a record naming what the code computed it from.        *)
(***************************************************************************)
EXTENDS Integers, Sequences, FiniteSets, TLC

\* ---------------------------------------------------------------- bounds
\* loadGLB calls per run, the initial load of initViewer included
MaxLoads == 3
\* loadGLB calls whose decode callback has not run yet
MaxInflight == 2
\* largest elapsed time of one render frame, in units of Eps
MaxDt == 2
\* named sections drawn for the stage arithmetic of SpecStage
MaxSections == 4
\* distance units between the fitted distance and either distance limit
DistSpan == 6
\* the step of the millisecond clock that times the wheel cooldown
TickMs == 130
\* largest part index a caller passes to isolateIndex and setVisibleIndices
MaxIndex == 3
\* part names in one list handed to parseNamedParts
MaxNames == 3

\* ------------------------------------------------------- JS primitives
Min2(a, b) == IF a <= b THEN a ELSE b
Max2(a, b) == IF a >= b THEN a ELSE b
Clamp(x, lo, hi) == Max2(lo, Min2(hi, x))

\* JavaScript %: the remainder takes the sign of the dividend
JsRem(a, n) == IF a >= 0 THEN a % n ELSE 0 - ((0 - a) % n)

\* --------------------------------------------------- part-name strings
IsSpace(c) == c \in {" ", "\t"}
IsDigit(c) == c \in {"0", "1", "2", "3", "4", "5", "6", "7", "8", "9"}
DigitVal(c) ==
  CASE c = "0" -> 0 [] c = "1" -> 1 [] c = "2" -> 2 [] c = "3" -> 3
    [] c = "4" -> 4 [] c = "5" -> 5 [] c = "6" -> 6 [] c = "7" -> 7
    [] c = "8" -> 8 [] c = "9" -> 9

\* the i flag of the pattern: letters compare by their lower-case form
Lower(c) ==
  CASE c = "S" -> "s" [] c = "E" -> "e" [] c = "C" -> "c" [] c = "T" -> "t"
    [] c = "I" -> "i" [] c = "O" -> "o" [] c = "N" -> "n" [] c = "A" -> "a"
    [] c = "F" -> "f" [] c = "B" -> "b" [] OTHER -> c

RECURSIVE TrimStart(_)
TrimStart(s) ==
  IF s # <<>> /\ IsSpace(Head(s)) THEN TrimStart(Tail(s)) ELSE s

RECURSIVE TrimEnd(_)
TrimEnd(s) ==
  IF s # <<>> /\ IsSpace(s[Len(s)]) THEN TrimEnd(SubSeq(s, 1, Len(s) - 1)) ELSE s

\* String.prototype.trim
Trim(s) == TrimEnd(TrimStart(s))

HasPrefixCI(s, tok) ==
  /\ Len(s) >= Len(tok)
  /\ \A i \in 1..Len(tok) : Lower(s[i]) = tok[i]

RECURSIVE DigitsValue(_, _)
DigitsValue(s, acc) ==
  IF s = <<>> THEN acc ELSE DigitsValue(Tail(s), 10 * acc + DigitVal(Head(s)))

AllDigits(s) == s # <<>> /\ \A i \in 1..Len(s) : IsDigit(s[i])

\* the tokens of the alternation (?:sec|se|section)
SectionTokens == { <<"s", "e", "c">>, <<"s", "e">>,
                   <<"s", "e", "c", "t", "i", "o", "n">> }

\* a pattern without the closing $: the digits may be followed by anything
RxTailUnanchored(s) ==
  LET body == Trim(s)
      n == IF \E i \in 1..Len(body) : ~IsDigit(body[i])
           THEN (CHOOSE i \in 1..Len(body) :
                   ~IsDigit(body[i]) /\ \A j \in 1..(i - 1) : IsDigit(body[j])) - 1
           ELSE Len(body)
  IN IF n >= 1 THEN DigitsValue(SubSeq(body, 1, n), 0) ELSE 0 - 1

\* what follows the token: \s*(\d+)\s*$ ; the value of the digits, or -1
RxTail(s) ==
  LET body == Trim(s) IN IF AllDigits(body) THEN DigitsValue(body, 0) ELSE 0 - 1

\* rx = /^(?:\s*(?:sec|se|section)\s*)(\d+)\s*$/i : parseInt of the captured
\* digits when the string matches, -1 when it does not
RxExec(s) ==
  LET t == TrimStart(s)
      hits == { tok \in SectionTokens :
                  /\ HasPrefixCI(t, tok)
                  /\ RxTail(SubSeq(t, Len(tok) + 1, Len(t))) >= 0 }
  IN IF hits = {} THEN 0 - 1
     ELSE LET tok == CHOOSE k \in hits : TRUE
          IN RxTail(SubSeq(t, Len(tok) + 1, Len(t)))

\* a sort that puts an element before those of equal num already placed
RECURSIVE InsertByNumTiesFirst(_, _)
InsertByNumTiesFirst(sorted, p) ==
  IF sorted = <<>> THEN <<p>>
  ELSE IF sorted[Len(sorted)].num < p.num THEN Append(sorted, p)
  ELSE Append(InsertByNumTiesFirst(SubSeq(sorted, 1, Len(sorted) - 1), p),
              sorted[Len(sorted)])

\* Array.prototype.sort with (a, b) => a.num - b.num : a stable insertion
RECURSIVE InsertByNum(_, _)
InsertByNum(sorted, p) ==
  IF sorted = <<>> THEN <<p>>
  ELSE IF sorted[Len(sorted)].num <= p.num THEN Append(sorted, p)
  ELSE Append(InsertByNum(SubSeq(sorted, 1, Len(sorted) - 1), p), sorted[Len(sorted)])

RECURSIVE SortByNum(_, _)
SortByNum(picks, acc) ==
  IF picks = <<>> THEN acc ELSE SortByNum(Tail(picks), InsertByNum(acc, Head(picks)))

RECURSIVE PickNamed(_, _)
PickNamed(allNames, idx) ==
  IF idx >= Len(allNames) THEN <<>>
  ELSE LET name == allNames[idx + 1]
           num == RxExec(Trim(name))
       IN (IF num >= 0 THEN << [name |-> name, index |-> idx, num |-> num] >> ELSE <<>>)
          \o PickNamed(allNames, idx + 1)

\* App.parseNamedParts
parseNamedParts(allNames) == SortByNum(PickNamed(allNames, 0), <<>>)

\* ------------------------------------------------------------- assets
\* What GLTFLoader hands to the load callback for each file the model draws:
\* gltf.scene (ok/hasScene), the children gatherParts keeps (name of the
\* child, names of its descendants in traversal order), gltf.animations
\* (name, duration in units of Eps), the material opacity of each part in
\* percent, and the distance fitCameraToObject computes for the bounding box.
\* GLTFLoader has replaced the white space of node names, so the names of
\* these objects hold none.
Sources == {"bed", "body", "lamp", "corrupt", "noscene"}

Asset(src) ==
  CASE src = "bed" ->
        [ok |-> TRUE, hasScene |-> TRUE,
         parts |-> << [name |-> <<"s", "e", "c", "2">>, inner |-> <<>>, opacity |-> 100],
                      [name |-> <<"F", "r", "a", "m", "e">>, inner |-> <<>>, opacity |-> 50],
                      [name |-> <<"S", "e", "c", "1">>, inner |-> <<>>, opacity |-> 5] >>,
         clips |-> << [name |-> "Explode", dur |-> 2], [name |-> "Lift", dur |-> 4] >>,
         fit |-> 0]
    [] src = "body" ->
        [ok |-> TRUE, hasScene |-> TRUE,
         parts |-> << [name |-> <<>>, inner |-> << <<"s", "e", "3">> >>,
                       opacity |-> 100] >>,
         clips |-> <<>>,
         fit |-> 2]
    [] src = "lamp" ->
        [ok |-> TRUE, hasScene |-> TRUE,
         parts |-> << [name |-> <<"s", "e", "c", "t", "i", "o", "n", "7">>, inner |-> <<>>,
                       opacity |-> 60] >>,
         clips |-> << [name |-> "Explode", dur |-> 4] >>,
         fit |-> 0 - 1]
    [] src = "noscene" ->
        [ok |-> TRUE, hasScene |-> FALSE, parts |-> <<>>, clips |-> <<>>, fit |-> 0]
    [] OTHER ->
        [ok |-> FALSE, hasScene |-> FALSE, parts |-> <<>>, clips |-> <<>>, fit |-> 0]

\* ------------------------------------------------------ program constants
\* the guard epsilon 1e-6 s of setExplode, the unit of clip time
Eps == 1
\* ln(EXPLODED_ZOOM_FACTOR) in distance units
ZoomUnits == 2
\* controls.minDistance and controls.maxDistance, in distance units: the
\* model keeps the two limits DistSpan units either side of distance 0, so
\* that a few zoom steps reach them
DistMin == 0 - DistSpan
DistMax == DistSpan
\* the dim opacity applyStage passes to isolateIndex, in percent
StageDim == 22

\* ---------------------------------------------------------------- state
VARIABLES
  mobile,               \* which viewer module the App imported
  \* viewer module state (src/viewer.ts, src/viewer.mobile.ts)
  attached,             \* asset roots in the scene graph, in scene order
  pivot,                \* mobile: the pivot group exists (and is in the scene)
  currentModel,         \* root of the current asset, 0 = null
  parts,                \* <<root, child index>> of every part
  partNames,
  partVisible,          \* Object3D.visible of every part
  partOpacity,          \* material opacity of every part, percent
  savedMatProps,        \* base opacity cloneMaterials recorded, percent
  mixer,                \* root the AnimationMixer animates, 0 = null
  actions,              \* clip name -> AnimationAction state
  clipNames,
  clipDurations,
  explodeState,
  explodedZoomApplied,  \* _explodedZoomApplied
  zoomAnimRAF,          \* _zoomAnimRAF, 0 = null
  rafQueue,             \* smooth-dolly step callbacks the browser still holds
  dist,                 \* camera-to-target distance
  centroid,
  target_desired,
  controlsTarget,       \* controls.target
  animationLoop,        \* renderer.setAnimationLoop holds renderFrame
  scene,                \* scene, camera, controls and renderer are set (not null)
  loads,                \* loadGLB calls whose loader callback has not run
  nLoads,               \* loadGLB calls made so far
  \* App component state (src/ui/App.tsx)
  handle,               \* the handle state is set
  mounted,              \* the App component is mounted
  namedParts,
  stage,
  gestureTotal,         \* totalStages captured by the gesture effect's closures
  wheelCooldown,
  sinceWheel,           \* ms since the cooldown timeout was last set, up to its delay
  touchStart,           \* touchStart.current is set
  pinchActive,
  pinchStartDist,       \* finger spread, as a logarithm in distance units
  \* observation of the last step that acted on the viewer or on the stage
  \* (history only)
  hist,
  chain,
  probe

viewerVars == << attached, pivot, currentModel, parts, partNames, partVisible,
                 partOpacity, savedMatProps, mixer, actions,
                 clipNames, clipDurations, explodeState, explodedZoomApplied,
                 zoomAnimRAF, rafQueue, dist, centroid, target_desired, controlsTarget,
                 animationLoop, scene >>
appVars == << handle, mounted, namedParts, stage, gestureTotal, wheelCooldown, sinceWheel >>
touchVars == << touchStart, pinchActive, pinchStartDist >>
vars == << mobile, viewerVars, loads, nLoads, appVars, touchVars, hist, chain, probe >>

\* ---------------------------------------------------------------- points
Origin == [k |-> "origin", r |-> 0, n |-> <<>>]
\* bbox centre of the asset rooted at r; the mobile build re-centres every
\* asset under the pivot, so its centre is the origin
CentreOf(r, mob) == IF mob THEN Origin ELSE [k |-> "centre", r |-> r, n |-> <<>>]
\* world position of the object named n under root r
ObjPos(r, n) == [k |-> "object", r |-> r, n |-> n]
\* bbox centre of part i of root r
PartCentre(r, i) == [k |-> "part", r |-> r, n |-> << i >>]
\* a point strictly between the old controls.target and target_desired
InTransit == [k |-> "transit", r |-> 0, n |-> <<>>]

\* ------------------------------------------------- the viewer as a value
\* The module-level variables of the viewer, gathered so that the calls a
\* handler makes one after the other compose.  calls and lastExplode are
\* observations: the handle calls issued, and the state the last setExplode
\* call found (called: a call was made; ran: it passed the guard; clips: the
\* number of animation clips of the asset currentModel refers to; playing:
\* a clip of the mixer in use was not paused).
NoExplode ==
  [t |-> 0 - 1, pre |-> 0, called |-> FALSE, ran |-> FALSE, preRAF |-> 0,
   preQueue |-> {}, preDist |-> 0, preApplied |-> FALSE, clips |-> 0,
   playing |-> FALSE]

Viewer ==
  [mobile |-> mobile, attached |-> attached, pivot |-> pivot,
   currentModel |-> currentModel, parts |-> parts, partNames |-> partNames,
   partVisible |-> partVisible, partOpacity |-> partOpacity,
   savedMatProps |-> savedMatProps, mixer |-> mixer, actions |-> actions,
   clipNames |-> clipNames, clipDurations |-> clipDurations,
   explodeState |-> explodeState, explodedZoomApplied |-> explodedZoomApplied,
   zoomAnimRAF |-> zoomAnimRAF, rafQueue |-> rafQueue, dist |-> dist,
   centroid |-> centroid, target_desired |-> target_desired,
   controlsTarget |-> controlsTarget, animationLoop |-> animationLoop,
   scene |-> scene,
   calls |-> <<>>, lastExplode |-> NoExplode]

SetViewer(V) ==
  /\ attached' = V.attached
  /\ pivot' = V.pivot
  /\ currentModel' = V.currentModel
  /\ parts' = V.parts
  /\ partNames' = V.partNames
  /\ partVisible' = V.partVisible
  /\ partOpacity' = V.partOpacity
  /\ savedMatProps' = V.savedMatProps
  /\ mixer' = V.mixer
  /\ actions' = V.actions
  /\ clipNames' = V.clipNames
  /\ clipDurations' = V.clipDurations
  /\ explodeState' = V.explodeState
  /\ explodedZoomApplied' = V.explodedZoomApplied
  /\ zoomAnimRAF' = V.zoomAnimRAF
  /\ rafQueue' = V.rafQueue
  /\ dist' = V.dist
  /\ centroid' = V.centroid
  /\ target_desired' = V.target_desired
  /\ controlsTarget' = V.controlsTarget
  /\ animationLoop' = V.animationLoop
  /\ scene' = V.scene

\* ------------------------------------------------------- smooth dolly
\* cancelAnimationFrame(_zoomAnimRAF); _zoomAnimRAF = null
cancelZoom(V) ==
  IF V.zoomAnimRAF # 0
  THEN [V EXCEPT !.rafQueue = { q \in @ : q.id # V.zoomAnimRAF }, !.zoomAnimRAF = 0]
  ELSE V

\* the handle requestAnimationFrame returns: one no pending callback has
NewRafId(V) ==
  CHOOSE i \in 1..(Cardinality(V.rafQueue) + 1) :
    /\ i \notin { q.id : q \in V.rafQueue }
    /\ \A j \in 1..(i - 1) : j \in { q.id : q \in V.rafQueue }

\* _setDist: clamp into [minDistance, maxDistance]
setDist(V, d) == [V EXCEPT !.dist = Clamp(d, DistMin, DistMax)]

\* a dollyScaleSmooth that schedules its step without cancelling the pending
\* one
dollyScaleSmoothNoCancel(V, k) ==
  LET id == NewRafId(V)
  IN [V EXCEPT !.rafQueue = @ \cup { [id |-> id, start |-> V.dist, k |-> k, t |-> 0] },
               !.zoomAnimRAF = id]

\* dollyScaleSmooth(k, ms): k is the logarithm of the factor.  The step
\* closure keeps start and end; t is the progress its last run saw
\* (0 none, 1 part of ms elapsed, 2 all of ms elapsed).
dollyScaleSmooth(V, k) ==
  LET W == cancelZoom(V)
      id == NewRafId(W)
  IN IF ~V.scene THEN V
     ELSE [W EXCEPT !.rafQueue = @ \cup { [id |-> id, start |-> W.dist, k |-> k, t |-> 0] },
                    !.zoomAnimRAF = id]

\* an applyExplodedZoom without the _explodedZoomApplied guard: it zooms out
\* on every call
applyExplodedZoomUnguarded(V) ==
  [dollyScaleSmooth(V, ZoomUnits) EXCEPT !.explodedZoomApplied = TRUE]

\* a clearExplodedZoom that dollies by EXPLODED_ZOOM_FACTOR instead of its
\* inverse
clearExplodedZoomSameFactor(V) ==
  IF ~V.explodedZoomApplied THEN V
  ELSE [dollyScaleSmooth(V, ZoomUnits) EXCEPT !.explodedZoomApplied = FALSE]

applyExplodedZoom(V) ==
  IF V.explodedZoomApplied THEN V
  ELSE [dollyScaleSmooth(V, ZoomUnits) EXCEPT !.explodedZoomApplied = TRUE]

clearExplodedZoom(V) ==
  IF ~V.explodedZoomApplied THEN V
  ELSE [dollyScaleSmooth(V, 0 - ZoomUnits) EXCEPT !.explodedZoomApplied = FALSE]

\* _easeOutCubic, in halves, at the three progress values the model samples:
\* 0, the progress 1 - (1/2)^(1/3) at which the ease is 1/2, and 1
EaseHalves(t) == IF t >= 2 THEN 2 ELSE IF t = 1 THEN 1 ELSE 0

\* start * (end/start)^e
EasedDist(q, t) == q.start + (q.k * EaseHalves(t)) \div 2

\* one run of the step closure q, the clock showing progress t
zoomStep(V, q, t) ==
  LET W == setDist([V EXCEPT !.rafQueue = @ \ {q}], EasedDist(q, t))
      id == NewRafId(W)
  IN IF t < 2
     THEN [W EXCEPT !.rafQueue = @ \cup { [q EXCEPT !.id = id, !.t = t] },
                    !.zoomAnimRAF = id]
     ELSE [W EXCEPT !.zoomAnimRAF = 0]

\* ------------------------------------------------------ animation mixer
\* AnimationAction._update for a LoopOnce, clampWhenFinished action
Advance(a, dur, dt, mx) ==
  IF a.paused \/ a.mixer # mx \/ dt = 0 THEN a
  ELSE LET t2 == a.time + dt * a.timeScale
       IN IF t2 >= dur THEN [a EXCEPT !.time = dur, !.paused = TRUE]
          ELSE IF t2 < 0 THEN [a EXCEPT !.time = 0, !.paused = TRUE]
          ELSE [a EXCEPT !.time = t2]

\* mixer.update(dt)
mixerUpdate(V, dt) ==
  IF V.mixer = 0 THEN V
  ELSE [V EXCEPT !.actions =
          [n \in DOMAIN @ |-> Advance(@[n], V.clipDurations[n], dt, V.mixer)]]

\* ------------------------------------------------------------ setExplode
\* t arrives in units of 1/TDen
TDen == 2

\* gltf.animations of the asset currentModel refers to; none when it is null
ModelClips(V) ==
  LET hits == { i \in DOMAIN V.attached : V.attached[i].id = V.currentModel }
  IN IF V.currentModel = 0 \/ hits = {} THEN <<>>
     ELSE Asset(V.attached[CHOOSE i \in hits : TRUE].src).clips

\* the state a setExplode(t) call finds
FoundBy(V, t, ran) ==
  [t |-> t, pre |-> V.explodeState, called |-> TRUE, ran |-> ran,
   preRAF |-> V.zoomAnimRAF, preQueue |-> V.rafQueue, preDist |-> V.dist,
   preApplied |-> V.explodedZoomApplied, clips |-> Len(ModelClips(V)),
   playing |-> \E n \in DOMAIN V.actions :
                  V.actions[n].mixer = V.mixer /\ ~V.actions[n].paused]

\* a scrub branch that also takes the scrub position for the discrete state
setExplodeScrubTracking(V, t) ==
  [mixerUpdate(
     [V EXCEPT !.actions = [n \in DOMAIN @ |->
        [@[n] EXCEPT !.paused = TRUE,
                     !.time = (V.clipDurations[n] * t) \div TDen]]],
     0)
   EXCEPT !.explodeState = IF 2 * t >= TDen THEN 1 ELSE 0]

\* the scrub branch of setExplode, 0 < t < TDen: clip time is kept in whole
\* units of Eps, dur * t rounded down to one
setExplodeScrub(V, t) ==
  mixerUpdate(
    [V EXCEPT !.actions = [n \in DOMAIN @ |->
       [@[n] EXCEPT !.paused = TRUE,
                    !.time = (V.clipDurations[n] * t) \div TDen]]],
    0)

\* a setExplode whose reversal runs every clip back from where it stands
setExplodeResuming(V, t0) ==
  IF V.mixer = 0 \/ DOMAIN V.actions = {}
  THEN [V EXCEPT !.lastExplode = FoundBy(V, Clamp(t0, 0, TDen), FALSE)]
  ELSE
    LET t == Clamp(t0, 0, TDen)
        names == DOMAIN V.actions
        seen == [V EXCEPT !.lastExplode = FoundBy(V, t, TRUE)]
    IN IF t <= 0 THEN
         LET W == IF V.explodeState = 1
                  THEN [seen EXCEPT !.actions = [n \in names |->
                          [@[n] EXCEPT !.timeScale = 0 - 1, !.paused = FALSE]]]
                  ELSE mixerUpdate(
                         [seen EXCEPT !.actions = [n \in names |->
                            [@[n] EXCEPT !.paused = TRUE, !.timeScale = 1, !.time = 0]]],
                         Eps)
         IN [clearExplodedZoom(W) EXCEPT !.explodeState = 0]
       ELSE IF t >= TDen THEN
         LET W == IF V.explodeState = 1
                  THEN mixerUpdate(
                         [seen EXCEPT !.actions = [n \in names |->
                            [@[n] EXCEPT !.paused = TRUE, !.timeScale = 1,
                                         !.time = V.clipDurations[n]]]],
                         Eps)
                  ELSE [seen EXCEPT !.actions = [n \in names |->
                          [@[n] EXCEPT !.timeScale = 1, !.paused = FALSE]]]
         IN [applyExplodedZoom(W) EXCEPT !.explodeState = 1]
       ELSE setExplodeScrub(seen, t)

setExplode(V, t0) ==
  IF V.mixer = 0 \/ DOMAIN V.actions = {}
  THEN [V EXCEPT !.lastExplode = FoundBy(V, Clamp(t0, 0, TDen), FALSE)]
  ELSE
    LET t == Clamp(t0, 0, TDen)
        names == DOMAIN V.actions
        seen == [V EXCEPT !.lastExplode = FoundBy(V, t, TRUE)]
    IN IF t <= 0 THEN
         LET W == IF V.explodeState = 1
                  THEN [seen EXCEPT !.actions = [n \in names |->
                          [@[n] EXCEPT !.timeScale = 0 - 1,
                                       !.time = Max2(0, V.clipDurations[n] - Eps),
                                       !.paused = FALSE]]]
                  ELSE mixerUpdate(
                         [seen EXCEPT !.actions = [n \in names |->
                            [@[n] EXCEPT !.paused = TRUE, !.timeScale = 1, !.time = 0]]],
                         Eps)
         IN [clearExplodedZoom(W) EXCEPT !.explodeState = 0]
       ELSE IF t >= TDen THEN
         LET W == IF V.explodeState = 1
                  THEN mixerUpdate(
                         [seen EXCEPT !.actions = [n \in names |->
                            [@[n] EXCEPT !.paused = TRUE, !.timeScale = 1,
                                         !.time = V.clipDurations[n]]]],
                         Eps)
                  ELSE [seen EXCEPT !.actions = [n \in names |->
                          [@[n] EXCEPT !.time = 0, !.timeScale = 1, !.paused = FALSE]]]
         IN [applyExplodedZoom(W) EXCEPT !.explodeState = 1]
       ELSE setExplodeScrub(seen, t)

\* --------------------------------------------------- isolation, targets
\* the dimOpacity default of handle.isolateIndex when the caller passes none
DefaultDim(mob) == IF mob THEN 22 ELSE 1

\* isolatePart(index, dimOpacity); index -1 is null, dimOpacity -1 is absent
isolatePart(V, index, dimOpacity) ==
  LET dim == Clamp(IF dimOpacity < 0 THEN DefaultDim(V.mobile) ELSE dimOpacity, 8, 50)
  IN [V EXCEPT
        !.partVisible = [i \in DOMAIN V.parts |-> TRUE],
        !.partOpacity = [i \in DOMAIN V.parts |->
           IF index = 0 - 1 \/ i - 1 = index
           THEN Max2(98, V.savedMatProps[i]) ELSE dim]]

\* the indices argument of setVisibleIndices: null, or a list whose members
\* are keep
NullMask == [isNull |-> TRUE, keep |-> {}]
ListMask(S) == [isNull |-> FALSE, keep |-> S]

\* an applyVisibilityMask that tests the list for members and so takes the
\* empty list for null
applyVisibilityMaskEmptyAsNull(V, indices) ==
  [V EXCEPT
     !.partVisible = [i \in DOMAIN V.parts |->
        indices.keep = {} \/ (i - 1) \in indices.keep],
     !.partOpacity = [i \in DOMAIN V.parts |->
        IF indices.keep = {} \/ (i - 1) \in indices.keep
        THEN Max2(98, V.savedMatProps[i]) ELSE 0]]

\* applyVisibilityMask(indices)
applyVisibilityMask(V, indices) ==
  [V EXCEPT
     !.partVisible = [i \in DOMAIN V.parts |->
        indices.isNull \/ (i - 1) \in indices.keep],
     !.partOpacity = [i \in DOMAIN V.parts |->
        IF indices.isNull \/ (i - 1) \in indices.keep
        THEN Max2(98, V.savedMatProps[i]) ELSE 0]]

\* the name p.name of part k of an asset once the load callback has run:
\* the mobile build promotes a matching descendant name to the part
promoteSectionName(part) ==
  IF RxExec(Trim(part.name)) >= 0 THEN part.name
  ELSE LET hits == { j \in DOMAIN part.inner :
                       /\ Trim(part.inner[j]) # <<>>
                       /\ RxExec(Trim(part.inner[j])) >= 0 }
       IN IF hits = {} THEN part.name
          ELSE Trim(part.inner[CHOOSE j \in hits : \A h \in hits : j <= h])

ObjectName(part, mob) == IF mob THEN promoteSectionName(part) ELSE part.name

\* the names scene.getObjectByName can find under an attached root
NamesUnder(root, mob) ==
  LET ps == Asset(root.src).parts
  IN { ObjectName(ps[i], mob) : i \in DOMAIN ps }
     \cup UNION { { ps[i].inner[j] : j \in DOMAIN ps[i].inner } : i \in DOMAIN ps }

\* getWorldPosByName: the first object of that name in scene order, or null
\* (k = "null")
NoPoint == [k |-> "null", r |-> 0, n |-> <<>>]

getWorldPosByName(V, name) ==
  LET hits == { i \in DOMAIN V.attached : name \in NamesUnder(V.attached[i], V.mobile) }
  IN IF hits = {} THEN NoPoint
     ELSE ObjPos(V.attached[CHOOSE i \in hits : \A h \in hits : i <= h].id, name)

\* handle.setOrbitTargetByName(name); the empty name stands for null/''
setOrbitTargetByName(V, name) ==
  IF ~V.scene THEN V
  ELSE IF name = <<>> THEN [V EXCEPT !.target_desired = V.centroid]
  ELSE LET pos == getWorldPosByName(V, name)
       IN IF pos = NoPoint THEN V ELSE [V EXCEPT !.target_desired = pos]

\* handle.setOrbitTargetTo(index); -1 is null
setOrbitTargetTo(V, index) ==
  IF ~V.scene THEN V
  ELSE IF index = 0 - 1 \/ index < 0 \/ index >= Len(V.parts)
  THEN [V EXCEPT !.target_desired = V.centroid]
  ELSE [V EXCEPT !.target_desired =
          PartCentre(V.parts[index + 1][1], V.parts[index + 1][2])]

\* a dolly that multiplies the distance without clamping it
dollyUnclamped(V, k) == [V EXCEPT !.dist = V.dist + k]

\* handle.dolly(k), k the logarithm of the factor
dolly(V, k) ==
  IF ~V.scene THEN V ELSE [V EXCEPT !.dist = Clamp(V.dist + k, DistMin, DistMax)]

\* a resetView without its guard
resetViewUnguarded(V) ==
  [V EXCEPT !.controlsTarget = V.centroid, !.target_desired = V.centroid]

\* handle.resetView()
resetView(V) ==
  IF ~V.scene THEN V
  ELSE [V EXCEPT !.controlsTarget = V.centroid, !.target_desired = V.centroid]

\* ---------------------------------------------------------------- loadGLB
\* the empty table {} of actions and of clipDurations
NoClips == [n \in {} |-> 0]

DigitChar(k) ==
  CASE k = 0 -> "0" [] k = 1 -> "1" [] k = 2 -> "2" [] k = 3 -> "3" [] k = 4 -> "4"
    [] k = 5 -> "5" [] k = 6 -> "6" [] k = 7 -> "7" [] k = 8 -> "8" [] OTHER -> "9"

\* p.name || `Part ${i + 1}`
PartLabel(name, i) ==
  IF name # <<>> THEN name ELSE <<"P", "a", "r", "t", " ", DigitChar(i + 1)>>

\* what the registry queries of the handle return
Registry(V) == [model |-> V.currentModel, attached |-> V.attached,
                names |-> V.partNames, count |-> Len(V.parts),
                clips |-> V.clipNames]

\* loadGLB up to the await: the previous asset and every table are dropped
loadStart(V) ==
  LET W == [cancelZoom(V) EXCEPT !.explodedZoomApplied = FALSE]
      X == IF V.mobile
           THEN (IF W.pivot THEN [W EXCEPT !.attached = <<>>, !.pivot = FALSE] ELSE W)
           ELSE (IF W.currentModel # 0
                 THEN [W EXCEPT !.attached = SelectSeq(@, LAMBDA r : r.id # W.currentModel)]
                 ELSE W)
  IN [X EXCEPT !.currentModel = 0, !.mixer = 0,
               !.actions = NoClips, !.clipNames = <<>>, !.clipDurations = NoClips,
               !.parts = <<>>, !.partNames = <<>>, !.partVisible = <<>>,
               !.partOpacity = <<>>, !.savedMatProps = <<>>,
               !.explodeState = 0]

\* does the loader callback find a root: loader error, or gltf without scene
Decodes(src) == Asset(src).ok /\ Asset(src).hasScene

\* cloneMaterials: the base opacity kept for a material
BaseOpacity(raw) == IF raw > 10 THEN raw ELSE 100

RECURSIVE addClips(_, _, _)
addClips(V, clips, id) ==
  IF clips = <<>> THEN V
  ELSE LET c == Head(clips)
           act == [time |-> 0, paused |-> TRUE, timeScale |-> 1, mixer |-> id]
       IN addClips(
            [V EXCEPT !.actions = [n \in DOMAIN @ \cup {c.name} |->
                                      IF n = c.name THEN act ELSE @[n]],
                      !.clipNames = Append(@, c.name),
                      !.clipDurations = [n \in DOMAIN @ \cup {c.name} |->
                                      IF n = c.name THEN c.dur ELSE @[n]]],
            Tail(clips), id)

\* the loader's success callback for call number id, a root having been found
loadDecoded(V, id, src) ==
  LET a == Asset(src)
      n == Len(a.parts)
      base == [i \in 1..n |-> BaseOpacity(a.parts[i].opacity)]
      W == [V EXCEPT
              !.currentModel = id,
              !.savedMatProps = base,
              !.partOpacity = base,
              !.partVisible = [i \in 1..n |-> TRUE],
              !.parts = [i \in 1..n |-> <<id, i - 1>>],
              !.partNames = [i \in 1..n |->
                               PartLabel(ObjectName(a.parts[i], V.mobile), i - 1)],
              !.centroid = CentreOf(id, V.mobile),
              !.pivot = V.mobile,
              !.attached = IF V.mobile THEN << [id |-> id, src |-> src] >>
                           ELSE Append(@, [id |-> id, src |-> src]),
              !.dist = Clamp(a.fit, DistMin, DistMax),
              !.controlsTarget = CentreOf(id, V.mobile)]
  IN IF a.clips # <<>>
     THEN [mixerUpdate(addClips([W EXCEPT !.mixer = id], a.clips, id), Eps)
             EXCEPT !.explodeState = 0]
     ELSE W

\* ------------------------------------------------------ stage sequencing
\* App: totalStages
totalStages(np) == 2 + Len(np)

\* a loopIndex without the "+ totalStages" correction: the bare JavaScript
\* remainder, negative for a negative index
loopIndexTruncating(i, total) == IF total <= 0 THEN 0 ELSE JsRem(i, total)

\* a nextStage that stops at the last stage instead of wrapping
nextStageSaturating(s, total) == Min2(s + 1, total - 1)

\* App: loopIndex, for the totalStages its closure holds
loopIndex(i, total) ==
  IF total <= 0 THEN 0 ELSE JsRem(JsRem(i, total) + total, total)

nextStage(s, total) == loopIndex(s + 1, total)
prevStage(s, total) == loopIndex(s - 1, total)

\* a handle call as the App issues it
Call(V, fn, i, dim, name) ==
  [V EXCEPT !.calls = Append(@, [fn |-> fn, i |-> i, dim |-> dim, name |-> name])]

hSetExplode(V, t) == Call(setExplode(V, t * TDen), "setExplode", t, 0 - 1, <<>>)
hIsolateIndex(V, i, dim) == Call(isolatePart(V, i, dim), "isolateIndex", i, dim, <<>>)
hSetOrbitTargetTo(V, i) == Call(setOrbitTargetTo(V, i), "setOrbitTargetTo", i, 0 - 1, <<>>)
hSetOrbitTargetByName(V, name) ==
  Call(setOrbitTargetByName(V, name), "setOrbitTargetByName", 0 - 1, 0 - 1, name)

\* an applyStage that isolates by the section's number instead of the index
\* of its part
applyStageByNumber(V, idx, np) ==
  IF idx = 0 THEN hSetOrbitTargetTo(hIsolateIndex(hSetExplode(V, 0), 0 - 1, 0 - 1), 0 - 1)
  ELSE IF idx = 1 THEN hSetOrbitTargetTo(hIsolateIndex(hSetExplode(V, 1), 0 - 1, 0 - 1), 0 - 1)
  ELSE IF idx - 2 \in 0..(Len(np) - 1)
  THEN LET p == np[idx - 1]
       IN hSetOrbitTargetByName(hIsolateIndex(hSetExplode(V, 1), p.num - 1, StageDim), p.name)
  ELSE V

\* App: applyStage(h, idx, parts)
applyStage(V, idx, np) ==
  IF idx = 0 THEN hSetOrbitTargetTo(hIsolateIndex(hSetExplode(V, 0), 0 - 1, 0 - 1), 0 - 1)
  ELSE IF idx = 1 THEN hSetOrbitTargetTo(hIsolateIndex(hSetExplode(V, 1), 0 - 1, 0 - 1), 0 - 1)
  ELSE IF idx - 2 \in 0..(Len(np) - 1)
  THEN LET p == np[idx - 1]
       IN hSetOrbitTargetByName(hIsolateIndex(hSetExplode(V, 1), p.index, StageDim), p.name)
  ELSE V

\* a handler that issues its dolly twice
hDollyTwice(V, k) ==
  Call(Call(dolly(dolly(V, k), k), "dolly", k, 0 - 1, <<>>), "dolly", k, 0 - 1, <<>>)

\* handle.dolly(k) as the gesture handlers issue it
hDolly(V, k) == Call(dolly(V, k), "dolly", k, 0 - 1, <<>>)

\* the three calls onPickGLB, onDrop, the init effect and the Reset button
\* make directly
resetCalls(V) == hSetOrbitTargetTo(hIsolateIndex(hSetExplode(V, 0), 0 - 1, 0 - 1), 0 - 1)

\* ------------------------------------------------------------ observation
\* the gesture event a step handled: a wheel event (dy), a touch release
\* (dx, dy, dt) or a pinch move (finger spread before d0 and now d1), what it
\* found (stage, ms since the cooldown timeout was set, the cooldown flag,
\* the camera distance) and the arguments of the dolly calls it issued; each
\* kind of event keeps the fields that concern it
NoGesture ==
  [kind |-> "none", dx |-> 0, dy |-> 0, dt |-> 0, d0 |-> 0, d1 |-> 0, from |-> 0,
   gap |-> 0, cooldown |-> FALSE, preDist |-> 0, dollies |-> <<>>, bare |-> FALSE]

Dollies(V) ==
  LET sel == SelectSeq(V.calls, LAMBDA c : c.fn = "dolly")
  IN [j \in 1..Len(sel) |-> sel[j].i]

\* a wheel event that changes the stage
WheelSeen(dy) ==
  [NoGesture EXCEPT !.kind = "wheel", !.dy = dy, !.from = stage, !.gap = sinceWheel]

\* a wheel event with a modifier key
WheelDollySeen(dy, V) ==
  [NoGesture EXCEPT !.kind = "wheelDolly", !.dy = dy, !.from = stage,
                    !.cooldown = wheelCooldown, !.preDist = dist,
                    !.dollies = Dollies(V)]

\* a touch release that changes the stage
SwipeSeen(touch) ==
  [NoGesture EXCEPT !.kind = "swipe", !.dx = touch[1], !.dy = touch[2],
                    !.dt = touch[3], !.from = stage]

\* a touch release whose event carries no changedTouches
BareReleaseSeen == [NoGesture EXCEPT !.kind = "release", !.from = stage, !.bare = TRUE]

\* a pinch move, with the dolly calls it issued
PinchSeen(d0, d1, V) ==
  [NoGesture EXCEPT !.kind = "pinch", !.d0 = d0, !.d1 = d1, !.dollies = Dollies(V)]

\* a direct handle.dolly call
DollySeen(V) ==
  [NoGesture EXCEPT !.kind = "dolly", !.preDist = dist, !.dollies = Dollies(V)]

\* the isolateIndex or setVisibleIndices call a caller of the handle made:
\* its arguments and the visible flags it found
NoHandleCall ==
  [fn |-> "none", i |-> 0 - 1, dim |-> 0 - 1, mask |-> NullMask, preVisible |-> <<>>]

\* ------------------------------------------------------------------- AR
\* what the browser offers when "View in AR" is clicked: no navigator.xr;
\* isSessionSupported('immersive-ar') answering false; isSessionSupported
\* rejecting; support announced but requestSession rejecting; a session
ARHosts == {"noXR", "unsupported", "probeFails", "requestFails", "ok"}

\* what a click on "View in AR" did: the alerts shown, whether the Quick Look
\* anchor was clicked, whether requestSession was called, whether an AR
\* session was entered, whether the promise of the handler was rejected
NoAR == [host |-> "none", ios |-> FALSE, alerts |-> <<>>, quickLook |-> FALSE,
         requested |-> FALSE, entered |-> FALSE, threw |-> FALSE]

\* handle.enterAR() of a viewer that holds its renderer: the desktop build
\* lets a failing requestSession reject its promise, the mobile build
\* catches it and alerts
enterAR(host, mob) ==
  IF host = "noXR"
  THEN [NoAR EXCEPT !.alerts = << "WebXR not available in this browser." >>]
  ELSE IF host = "ok" THEN [NoAR EXCEPT !.requested = TRUE, !.entered = TRUE]
  ELSE IF mob
  THEN [NoAR EXCEPT !.requested = TRUE,
                    !.alerts = << "Failed to start AR session on this device." >>]
  ELSE [NoAR EXCEPT !.requested = TRUE, !.threw = TRUE]

\* has the App reached the call of enterAR: navigator.xr is there and
\* isSessionSupported answered true
ARSupported(host) == host \in {"requestFails", "ok"}

\* an onClickViewInAR without its try / catch
onClickViewInARUncaught(host, ios, hasHandle, mob) ==
  LET r == IF ARSupported(host) /\ hasHandle THEN enterAR(host, mob) ELSE NoAR
  IN IF host = "probeFails" \/ r.threw
     THEN [NoAR EXCEPT !.requested = r.requested, !.threw = TRUE]
     ELSE IF ARSupported(host) THEN r
     ELSE IF ios THEN [NoAR EXCEPT !.quickLook = TRUE]
     ELSE [NoAR EXCEPT !.alerts = << "AR not supported on this device/browser." >>]

\* App: onClickViewInAR; the Quick Look anchor is always in the DOM
onClickViewInAR(host, ios, hasHandle, mob) ==
  LET r == IF ARSupported(host) /\ hasHandle THEN enterAR(host, mob) ELSE NoAR
  IN IF ARSupported(host) /\ ~r.threw THEN r
     ELSE IF ios THEN [NoAR EXCEPT !.requested = r.requested, !.quickLook = TRUE]
     ELSE [NoAR EXCEPT !.requested = r.requested,
                       !.alerts = << "AR not supported on this device/browser." >>]

NoRegistry == [model |-> 0, attached |-> <<>>, names |-> <<>>, count |-> 0, clips |-> <<>>]
NoChain == [n |-> 0, d0 |-> 0, undone |-> FALSE]
NoProbe == [start |-> 0, n |-> 0, op |-> "none", from |-> 0]

\* what the step that just ran did: its name, the load it settled and the
\* registry that load's call found, the stage applyStage was run for (-1:
\* not run) with the calls it issued, and the last setExplode call
Seen(op, ld, pre, idx, V) ==
  [op |-> op, ld |-> ld, pre |-> pre, applied |-> idx,
   calls |-> IF idx >= 0 THEN V.calls ELSE <<>>, ex |-> V.lastExplode,
   g |-> NoGesture, h |-> NoHandleCall, ar |-> NoAR]

\* consecutive setExplode(1) calls since the viewer left overview, and the
\* distance the first of them found; undone: a setExplode(0) has followed
\* them, with d0 the distance found before the first
ChainAfter(V) ==
  LET ex == V.lastExplode
  IN IF ~ex.ran THEN chain
     ELSE IF ex.t <= 0
     THEN (IF chain.n >= 1 THEN [n |-> 0, d0 |-> chain.d0, undone |-> TRUE]
           ELSE IF chain.undone THEN chain ELSE NoChain)
     ELSE IF ex.t < TDen THEN NoChain
     ELSE IF chain.n = 0
          THEN (IF ex.pre = 0 THEN [n |-> 1, d0 |-> ex.preDist, undone |-> FALSE]
                ELSE NoChain)
          ELSE [n |-> Min2(chain.n + 1, 2), d0 |-> chain.d0, undone |-> FALSE]

\* ----------------------------------------------------------------- touch
\* the logarithm the model gives a finger spread of 0 px
ZeroSpread == 0 - 100
\* finger spreads the touch events report, as logarithms relative to 100 px:
\* 0 px, 100 px, about 150 px (3 units) and more than five times 100 px
Spreads == {ZeroSpread, 0, 3, 16}
\* the limits 0.2 and 5 of the pinch scale: ln 5 in distance units
PinchClamp == 12
\* the delay of the cooldown timeout of onWheel, ms
WHEEL_COOLDOWN == 260

\* ------------------------------------------------------------------ Init
\* initViewer has built the scene and is awaiting loadGLB(modelUrl); the App
\* has rendered once with handle = null.
InitDist == 1

Init ==
  /\ mobile \in BOOLEAN
  /\ attached = <<>>
  /\ pivot = FALSE
  /\ currentModel = 0
  /\ parts = <<>>
  /\ partNames = <<>>
  /\ partVisible = <<>>
  /\ partOpacity = <<>>
  /\ savedMatProps = <<>>
  /\ mixer = 0
  /\ actions = NoClips
  /\ clipNames = <<>>
  /\ clipDurations = NoClips
  /\ explodeState = 0
  /\ explodedZoomApplied = FALSE
  /\ zoomAnimRAF = 0
  /\ rafQueue = {}
  /\ dist = InitDist
  /\ centroid = Origin
  /\ target_desired = Origin
  /\ controlsTarget = Origin
  /\ animationLoop = TRUE
  /\ scene = TRUE
  /\ \E src \in Sources :
       loads = { [id |-> 1, src |-> src, by |-> "init", pre |-> NoRegistry] }
  /\ nLoads = 1
  /\ handle = FALSE
  /\ mounted = TRUE
  /\ namedParts = <<>>
  /\ stage = 0
  /\ gestureTotal = totalStages(<<>>)
  /\ wheelCooldown = FALSE
  /\ sinceWheel = WHEEL_COOLDOWN
  /\ touchStart = FALSE
  /\ pinchActive = FALSE
  /\ pinchStartDist = ZeroSpread
  /\ hist = Seen("init", 0, NoRegistry, 0 - 1, Viewer)
  /\ chain = NoChain
  /\ probe = NoProbe

\* --------------------------------------------------------------- actions
\* the apply-stage effect: runs when handle, stage or namedParts changed
StageEffect(V, s, np, changed) ==
  IF changed THEN applyStage([V EXCEPT !.calls = <<>>], s, np) ELSE V

\* initViewer: the initial load decodes, the handle is returned, and the
\* init effect of the App continues (setHandle .. setOrbitTargetTo), followed
\* by the effects of the resulting render.  React batches setHandle and
\* setNamedParts into one render or renders setHandle alone first,
\* depending on its version; the gesture effect (deps [handle]) keeps the
\* closures of the render that first saw the handle.
InitViewerResolved ==
  \E l \in loads :
    /\ mounted
    /\ l.by = "init"
    /\ Decodes(l.src)
    /\ \E V1 \in { loadDecoded(Viewer, l.id, l.src) } :
       \E V2 \in { [V1 EXCEPT !.target_desired = V1.centroid] } :
       \E np \in { parseNamedParts(V2.partNames) } :
       \E V3 \in { StageEffect(resetCalls(V2), stage, np, TRUE) } :
          /\ SetViewer(V3)
          /\ namedParts' = np
          /\ gestureTotal' \in { totalStages(namedParts), totalStages(np) }
          /\ hist' = Seen("initResolved", l.id, l.pre, stage, V3)
          /\ chain' = NoChain
    /\ handle' = TRUE
    /\ loads' = loads \ {l}
    /\ UNCHANGED << mobile, touchVars, nLoads, mounted, stage, wheelCooldown, sinceWheel, probe >>

\* initViewer rejects with the initial load: the handle is never set
InitViewerRejected ==
  \E l \in loads :
    /\ l.by = "init"
    /\ ~Decodes(l.src)
    /\ loads' = loads \ {l}
    /\ hist' = Seen("initRejected", l.id, l.pre, 0 - 1, Viewer)
    /\ UNCHANGED << mobile, touchVars, viewerVars, nLoads, appVars, chain, probe >>

\* handle.loadGLB(f) as onPickGLB and onDrop call it
StartLoad(src, op) ==
  /\ handle
  /\ nLoads < MaxLoads
  /\ Cardinality(loads) < MaxInflight
  /\ \E V1 \in { loadStart(Viewer) } :
        /\ SetViewer(V1)
        /\ hist' = Seen(op, nLoads + 1, Registry(Viewer), 0 - 1, V1)
  /\ loads' = loads \cup { [id |-> nLoads + 1, src |-> src, by |-> "app",
                            pre |-> Registry(Viewer)] }
  /\ nLoads' = nLoads + 1
  /\ chain' = NoChain
  /\ UNCHANGED << mobile, touchVars, appVars, probe >>

OnPickGLB == \E src \in Sources : StartLoad(src, "loadGLB")

OnDrop == \E src \in Sources : StartLoad(src, "loadGLB")

\* the loader callback of an App load finds a root; loadGLB resolves and the
\* caller continues: setNamedParts, setStage(0), the three reset calls,
\* then the apply-stage effect of the new render
LoadResolved ==
  \E l \in loads :
    /\ l.by = "app"
    /\ Decodes(l.src)
    /\ \E V1 \in { loadDecoded(Viewer, l.id, l.src) } :
       \E np \in { parseNamedParts(V1.partNames) } :
       \E V2 \in { StageEffect(resetCalls(V1), 0, np, TRUE) } :
          /\ SetViewer(V2)
          /\ namedParts' = np
          /\ hist' = Seen("loadResolved", l.id, l.pre, 0, V2)
    /\ stage' = 0
    /\ loads' = loads \ {l}
    /\ chain' = NoChain
    /\ UNCHANGED << mobile, touchVars, nLoads, handle, mounted, gestureTotal, wheelCooldown, sinceWheel, probe >>

\* a loadGLB call that rejects and takes the animation loop down with it
LoadRejectedStopsLoop ==
  \E l \in loads :
    /\ l.by = "app"
    /\ ~Decodes(l.src)
    /\ loads' = loads \ {l}
    /\ animationLoop' = FALSE
    /\ hist' = Seen("loadRejected", l.id, l.pre, 0 - 1, Viewer)
    /\ UNCHANGED << mobile, touchVars, attached, pivot, currentModel, parts, partNames,
                    partVisible, partOpacity, savedMatProps, mixer, actions, clipNames,
                    clipDurations, explodeState, explodedZoomApplied, zoomAnimRAF,
                    rafQueue, dist, centroid, target_desired, controlsTarget, scene,
                    nLoads, appVars, chain, probe >>

\* the loader reports an error or the gltf has no scene: loadGLB rejects
\* and the caller only sets its status text
LoadRejected ==
  \E l \in loads :
    /\ l.by = "app"
    /\ ~Decodes(l.src)
    /\ loads' = loads \ {l}
    /\ hist' = Seen("loadRejected", l.id, l.pre, 0 - 1, Viewer)
    /\ UNCHANGED << mobile, touchVars, viewerVars, nLoads, appVars, chain, probe >>

\* setStage(s2) from a handler, and the apply-stage effect if the stage changed
ChangeStage(op, s2) ==
  /\ handle
  /\ \E V1 \in { StageEffect(Viewer, s2, namedParts, s2 # stage) } :
        /\ SetViewer(V1)
        /\ hist' = Seen(op, 0, NoRegistry, IF s2 # stage THEN s2 ELSE 0 - 1, V1)
        /\ chain' = ChainAfter(V1)
  /\ stage' = s2
  /\ UNCHANGED << mobile, touchVars, loads, nLoads, handle, mounted, namedParts, gestureTotal,
                  wheelCooldown, sinceWheel, probe >>

\* the stage rail of the desktop layout: its buttons take nextStage and
\* prevStage of the current render
NextButton == ~mobile /\ ChangeStage("setStage", nextStage(stage, totalStages(namedParts)))

PrevButton == ~mobile /\ ChangeStage("setStage", prevStage(stage, totalStages(namedParts)))

\* a dot of the stage rail (desktop), or the Overview / Exploded dock buttons
SelectStage ==
  \E i \in 0..(totalStages(namedParts) - 1) :
    /\ ~mobile \/ i \in {0, 1}
    /\ ChangeStage("setStage", i)

\* a Reset button that makes its three direct calls and leaves the stage
ResetButtonKeepsStage ==
  /\ handle
  /\ \E V1 \in { resetCalls(Viewer) } :
        /\ SetViewer(V1)
        /\ hist' = Seen("reset", 0, NoRegistry, 0 - 1, V1)
        /\ chain' = ChainAfter(V1)
  /\ UNCHANGED << mobile, touchVars, loads, nLoads, appVars, probe >>

\* the Reset dock button: three direct calls, then setStage(0)
ResetButton ==
  /\ handle
  /\ \E V1 \in { StageEffect(resetCalls(Viewer), 0, namedParts, stage # 0) } :
        /\ SetViewer(V1)
        /\ hist' = Seen("reset", 0, NoRegistry, IF stage # 0 THEN 0 ELSE 0 - 1, V1)
        /\ chain' = ChainAfter(V1)
  /\ stage' = 0
  /\ UNCHANGED << mobile, touchVars, loads, nLoads, handle, mounted, namedParts, gestureTotal,
                  wheelCooldown, sinceWheel, probe >>

\* wheel deltaY is counted in tenths of a pixel.  handle.dolly receives
\* exp(deltaY / 100 * 0.15), which is one distance unit for a deltaY of
\* ln(EXPLODED_ZOOM_FACTOR) / ZoomUnits / 0.0015: 87.5 px in the desktop
\* build (factor 1.30), 74.4 px in the mobile build (factor 1.25)
WheelUnit(mob) == IF mob THEN 744 ELSE 875
\* the threshold Math.abs(e.deltaY) < 30
WheelThreshold == 300
WheelDeltas(mob) == {0 - WheelUnit(mob), 0 - 300, 0 - 299, 299, 300, WheelUnit(mob)}
Abs(x) == IF x < 0 THEN 0 - x ELSE x

\* onWheel for one event: deltaY dy, modifier = e.ctrlKey || e.metaKey
WheelEvent(dy, modifier) ==
  /\ handle
  /\ IF modifier
     THEN \E V1 \in { hDolly(Viewer, dy \div WheelUnit(mobile)) } :
             /\ SetViewer(V1)
             /\ hist' = [Seen("dolly", 0, NoRegistry, 0 - 1, V1) EXCEPT
                           !.g = WheelDollySeen(dy, V1)]
             /\ chain' = NoChain
             /\ UNCHANGED << stage, wheelCooldown, sinceWheel >>
     ELSE IF wheelCooldown \/ Abs(dy) < WheelThreshold
     THEN UNCHANGED << viewerVars, stage, wheelCooldown, sinceWheel, hist, chain >>
     ELSE \E s2 \in { IF dy > 0 THEN nextStage(stage, gestureTotal)
                                 ELSE prevStage(stage, gestureTotal) } :
          \E V1 \in { StageEffect(Viewer, s2, namedParts, s2 # stage) } :
             /\ SetViewer(V1)
             /\ stage' = s2
             /\ wheelCooldown' = TRUE
             /\ sinceWheel' = 0
             /\ hist' = [Seen("setStage", 0, NoRegistry,
                              IF s2 # stage THEN s2 ELSE 0 - 1, V1) EXCEPT
                           !.g = WheelSeen(dy)]
             /\ chain' = ChainAfter(V1)
  /\ UNCHANGED << mobile, touchVars, loads, nLoads, handle, mounted, namedParts, gestureTotal, probe >>

\* onWheel, the modifier keys (ctrlKey, metaKey) being held or not as
\* Modifiers allows.  With a modifier key the model draws the deltaY that are
\* whole distance units, without one those around the threshold.
OnWheel(Modifiers) ==
  \E dy \in WheelDeltas(mobile), modifier \in Modifiers :
    /\ modifier <=> dy % WheelUnit(mobile) = 0
    /\ WheelEvent(dy, modifier)

\* a cooldown timeout that fires after half its delay
WheelCooldownEarly ==
  /\ wheelCooldown
  /\ 2 * sinceWheel >= WHEEL_COOLDOWN
  /\ wheelCooldown' = FALSE
  /\ UNCHANGED << mobile, touchVars, viewerVars, loads, nLoads, handle, mounted, namedParts, stage,
                  gestureTotal, sinceWheel, hist, chain, probe >>

\* a cooldown timeout whose callback leaves the flag set
WheelCooldownKept ==
  /\ wheelCooldown
  /\ sinceWheel >= WHEEL_COOLDOWN
  /\ wheelCooldown' = wheelCooldown
  /\ UNCHANGED << mobile, touchVars, viewerVars, loads, nLoads, handle, mounted, namedParts, stage,
                  gestureTotal, sinceWheel, hist, chain, probe >>

\* the timeout of an accepted wheel event: the browser runs the callback no
\* earlier than its delay after setTimeout
WheelCooldownTimeout ==
  /\ wheelCooldown
  /\ sinceWheel >= WHEEL_COOLDOWN
  /\ wheelCooldown' = FALSE
  /\ UNCHANGED << mobile, touchVars, viewerVars, loads, nLoads, handle, mounted, namedParts, stage,
                  gestureTotal, sinceWheel, hist, chain, probe >>

\* TickMs of time pass; the clock is followed up to the delay of the timeout
TimePasses ==
  /\ sinceWheel < WHEEL_COOLDOWN
  /\ sinceWheel' = Min2(sinceWheel + TickMs, WHEEL_COOLDOWN)
  /\ UNCHANGED << mobile, touchVars, viewerVars, loads, nLoads, handle, mounted, namedParts, stage,
                  gestureTotal, wheelCooldown, hist, chain, probe >>

\* onTouchStart, e.touches.length drawn from Fingers
OnTouchStart(Fingers) ==
  \E n \in Fingers, d \in Spreads :
    /\ handle
    /\ n = 2 \/ d = ZeroSpread
    /\ IF n = 2
       THEN /\ pinchActive' = TRUE
            /\ pinchStartDist' = d
            /\ UNCHANGED touchStart
       ELSE IF n = 1
       THEN /\ touchStart' = TRUE
            /\ UNCHANGED << pinchActive, pinchStartDist >>
       ELSE UNCHANGED touchVars
    /\ UNCHANGED << mobile, viewerVars, loads, nLoads, appVars, hist, chain, probe >>

\* a pinch factor that is the clamped scale itself, not its reciprocal
PinchFactorDirect(d, prev) == Clamp(d - prev, 0 - PinchClamp, PinchClamp)

\* factor = 1 / Math.max(0.2, Math.min(5, d / pinchStartDist)), as logarithms
PinchFactor(d, prev) == 0 - Clamp(d - prev, 0 - PinchClamp, PinchClamp)

\* an onTouchMove that dollies whatever the previous finger spread
TouchMoveUnguarded(n, d) ==
  /\ handle
  /\ IF pinchActive /\ n = 2
     THEN /\ \E V1 \in { hDolly(Viewer, PinchFactor(d, pinchStartDist)) } :
               /\ SetViewer(V1)
               /\ hist' = [Seen("dolly", 0, NoRegistry, 0 - 1, V1) EXCEPT
                             !.g = PinchSeen(pinchStartDist, d, V1)]
               /\ chain' = NoChain
          /\ pinchStartDist' = d
     ELSE UNCHANGED << viewerVars, pinchStartDist, hist, chain >>
  /\ UNCHANGED << mobile, loads, nLoads, appVars, touchStart, pinchActive, probe >>

\* onTouchMove for one event: n touches, finger spread d; a pinch dollies by
\* the inverse of the clamped scale, unless the previous spread is 0
TouchMove(n, d) ==
  /\ handle
  /\ IF pinchActive /\ n = 2
     THEN /\ IF pinchStartDist # ZeroSpread
             THEN \E V1 \in { hDolly(Viewer, PinchFactor(d, pinchStartDist)) } :
                     /\ SetViewer(V1)
                     /\ hist' = [Seen("dolly", 0, NoRegistry, 0 - 1, V1) EXCEPT
                                   !.g = PinchSeen(pinchStartDist, d, V1)]
                     /\ chain' = NoChain
             ELSE /\ hist' = [Seen("touchMove", 0, NoRegistry, 0 - 1, Viewer) EXCEPT
                                !.g = PinchSeen(pinchStartDist, d, Viewer)]
                  /\ UNCHANGED << viewerVars, chain >>
          /\ pinchStartDist' = d
     ELSE UNCHANGED << viewerVars, pinchStartDist, hist, chain >>
  /\ UNCHANGED << mobile, loads, nLoads, appVars, touchStart, pinchActive, probe >>

OnTouchMove == \E n \in 1..2, d \in Spreads : TouchMove(n, d)

\* the swipe test of onTouchEnd: V_THRESH 44, ANGLE_DOMINANCE 1.5, TIME_MAX 600
V_THRESH == 44
TIME_MAX == 600
IsSwipe(dx, dy, dt) ==
  /\ Abs(dy) > V_THRESH
  /\ 2 * Abs(dy) > 3 * Abs(dx)
  /\ dt < TIME_MAX

\* the touches the model draws, as <<dx, dy, dt>> in px and ms: a tap, a
\* swipe up, a swipe down, and swipes too short, too slanted and too slow
Touches == { <<0, 0, 100>>, <<0, 0 - 45, 599>>, <<29, 45, 100>>,
             <<0, 0 - 44, 100>>, <<30, 0 - 45, 100>>, <<0, 45, 600>> }

\* endX - start.x, endY - start.y and the elapsed time of a release: the end
\* point is that of e.changedTouches[0], and the start point itself when the
\* event carries no changedTouches
Displacement(touch, hasChanged) == IF hasChanged THEN touch ELSE << 0, 0, touch[3] >>

\* onTouchEnd (also the touchcancel listener) for one event: n fingers
\* remain, the lifted finger is displaced by touch, and the event carries
\* changedTouches or not
TouchRelease(n, touch, hasChanged) ==
  /\ handle
  /\ IF pinchActive /\ n < 2
     THEN pinchActive' = FALSE /\ pinchStartDist' = ZeroSpread
     ELSE UNCHANGED << pinchActive, pinchStartDist >>
  /\ \E moved \in { Displacement(touch, hasChanged) } :
       IF touchStart /\ IsSwipe(moved[1], moved[2], moved[3])
       THEN \E s2 \in { IF moved[2] < 0 THEN nextStage(stage, gestureTotal)
                                         ELSE prevStage(stage, gestureTotal) } :
            \E V1 \in { StageEffect(Viewer, s2, namedParts, s2 # stage) } :
               /\ SetViewer(V1)
               /\ stage' = s2
               /\ hist' = [Seen("setStage", 0, NoRegistry,
                                IF s2 # stage THEN s2 ELSE 0 - 1, V1) EXCEPT
                             !.g = SwipeSeen(moved)]
               /\ chain' = ChainAfter(V1)
       ELSE IF touchStart /\ ~hasChanged
       THEN /\ hist' = [Seen("touchEnd", 0, NoRegistry, 0 - 1, Viewer) EXCEPT
                          !.g = BareReleaseSeen]
            /\ UNCHANGED << viewerVars, stage, chain >>
       ELSE UNCHANGED << viewerVars, stage, hist, chain >>
  /\ touchStart' = FALSE
  /\ UNCHANGED << mobile, loads, nLoads, handle, mounted, namedParts, gestureTotal,
                  wheelCooldown, sinceWheel, probe >>

\* a release whose event carries changedTouches
TouchEnd(n, touch) == TouchRelease(n, touch, TRUE)

\* the model draws n only while a pinch is active, and the displacement only
\* while touchStart.current is set, the handler reading neither otherwise;
\* an event without changedTouches is drawn with one elapsed time
OnTouchEnd ==
  \E n \in 0..2, touch \in Touches, hasChanged \in BOOLEAN :
    /\ pinchActive \/ n = 0
    /\ touchStart \/ touch = <<0, 0, 100>>
    /\ hasChanged \/ touch = <<0, 0, 100>>
    /\ TouchRelease(n, touch, hasChanged)

\* controls.target.lerp(target_desired, lerpAmt): the target moves part of
\* the way, and in floating point eventually lands on target_desired
LerpTargets(V) ==
  IF V.controlsTarget = V.target_desired THEN { V.target_desired }
  ELSE { InTransit, V.target_desired }

\* renderFrame, dt of the clock in units of Eps; the renderer calls it for
\* as long as it is the animation loop
RenderFrame ==
  \E dt \in 1..MaxDt, tgt \in LerpTargets(Viewer) :
    /\ animationLoop
    /\ \E V1 \in { mixerUpdate([Viewer EXCEPT !.controlsTarget = tgt], dt) } :
          /\ SetViewer(V1)
          /\ hist' = Seen("frame", 0, NoRegistry, 0 - 1, V1)
    /\ UNCHANGED << mobile, touchVars, loads, nLoads, appVars, chain, probe >>

\* the browser runs a pending step callback of dollyScaleSmooth
ZoomFrame ==
  \E q \in rafQueue, t \in 1..2 :
    /\ t >= q.t
    /\ \E V1 \in { zoomStep(Viewer, q, t) } :
          /\ SetViewer(V1)
          /\ hist' = Seen("frame", 0, NoRegistry, 0 - 1, V1)
    /\ UNCHANGED << mobile, touchVars, loads, nLoads, appVars, chain, probe >>

\* handle.dispose(), as the cleanup of the init effect calls it when the
\* component unmounts
dispose(V) ==
  [cancelZoom(V) EXCEPT
     !.explodedZoomApplied = FALSE, !.animationLoop = FALSE, !.scene = FALSE,
     !.mixer = 0, !.actions = NoClips, !.clipNames = <<>>, !.clipDurations = NoClips,
     !.attached = <<>>, !.pivot = FALSE, !.currentModel = 0,
     !.parts = <<>>, !.partNames = <<>>, !.partVisible = <<>>,
     !.partOpacity = <<>>, !.savedMatProps = <<>>, !.explodeState = 0]

\* The component unmounts and the cleanup of the init effect disposes of the
\* viewer; the cleanup is the empty function until initViewer has resolved.
\* The handlers of the component run no more, which the model records by
\* clearing handle.  The model unmounts between loads only.
Dispose ==
  /\ handle
  /\ loads = {}
  /\ \E V1 \in { dispose(Viewer) } :
        /\ SetViewer(V1)
        /\ hist' = Seen("dispose", 0, NoRegistry, 0 - 1, V1)
  /\ handle' = FALSE
  /\ mounted' = FALSE
  /\ chain' = NoChain
  /\ probe' = NoProbe
  /\ UNCHANGED << mobile, touchVars, loads, nLoads, namedParts, stage, gestureTotal,
                  wheelCooldown, sinceWheel >>

\* The component unmounts while the async function of the init effect has
\* not passed `await initViewer(...)` (or after initViewer rejected): the
\* function the effect returned calls cleanup, which is still () => {}.
UnmountEarly ==
  /\ mounted
  /\ ~handle
  /\ mounted' = FALSE
  /\ hist' = Seen("unmount", 0, NoRegistry, 0 - 1, Viewer)
  /\ UNCHANGED << mobile, touchVars, viewerVars, loads, nLoads, handle, namedParts,
                  stage, gestureTotal, wheelCooldown, sinceWheel, chain, probe >>

\* initViewer resolves after the component has unmounted: the init effect
\* continues with its three direct calls and assigns cleanup, which nothing
\* calls any more; setHandle and setNamedParts reach no component.
InitViewerResolvedUnmounted ==
  \E l \in loads :
    /\ ~mounted
    /\ l.by = "init"
    /\ Decodes(l.src)
    /\ \E V1 \in { loadDecoded(Viewer, l.id, l.src) } :
       \E V2 \in { [V1 EXCEPT !.target_desired = V1.centroid] } :
       \E V3 \in { resetCalls(V2) } :
          /\ SetViewer(V3)
          /\ hist' = Seen("initResolved", l.id, l.pre, 0 - 1, V3)
          /\ chain' = NoChain
    /\ loads' = loads \ {l}
    /\ UNCHANGED << mobile, touchVars, nLoads, appVars, probe >>

\* The commands of the handle a caller can still issue when the viewer has
\* been disposed of (a continuation or a timer that kept the handle).
Commands ==
  {"setExplode", "dolly", "isolateIndex", "setVisibleIndices", "setOrbitTargetTo",
   "setOrbitTargetByName", "resetView", "loadGLB", "enterAR"}

\* what one command does to the viewer, with arguments i (an index, -1 for
\* null, also the numerator of t and the dolly factor) and src
Command(V, cmd, i, src) ==
  CASE cmd = "setExplode" -> setExplode(V, i)
    [] cmd = "dolly" -> dolly(V, i)
    [] cmd = "isolateIndex" -> isolatePart(V, i, 0 - 1)
    [] cmd = "setVisibleIndices" ->
         applyVisibilityMask(V, IF i < 0 THEN NullMask ELSE ListMask({i}))
    [] cmd = "setOrbitTargetTo" -> setOrbitTargetTo(V, i)
    [] cmd = "setOrbitTargetByName" ->
         setOrbitTargetByName(V, IF i < 0 THEN <<>> ELSE Asset(src).parts[1].name)
    [] cmd = "resetView" -> resetView(V)
    [] cmd = "loadGLB" -> IF ~V.scene THEN V ELSE loadStart(V)
    [] OTHER -> V

\* handle.enterAR(): it returns at once when the renderer is gone
hEnterAR(V, host) == IF ~V.scene THEN NoAR ELSE enterAR(host, V.mobile)

CommandAfterDispose ==
  \E cmd \in Commands, i \in (0 - 1)..MaxIndex, src \in Sources, host \in ARHosts :
    /\ ~scene
    /\ Asset(src).ok /\ Asset(src).hasScene
    /\ \E V1 \in { Command(Viewer, cmd, i, src) } :
          /\ SetViewer(V1)
          /\ hist' = [Seen("afterDispose", 0, NoRegistry, 0 - 1, V1) EXCEPT
                        !.h = [NoHandleCall EXCEPT !.fn = cmd, !.i = i],
                        !.ar = IF cmd = "enterAR" THEN hEnterAR(Viewer, host) ELSE NoAR]
          /\ loads' = IF cmd = "loadGLB" /\ V1 # Viewer
                      THEN loads \cup { [id |-> nLoads + 1, src |-> src, by |-> "caller",
                                          pre |-> Registry(Viewer)] }
                      ELSE loads
    /\ UNCHANGED << mobile, touchVars, nLoads, appVars, chain, probe >>

\* ------------------------------------------------ direct handle calls
\* the scrub a later setExplode call follows: the discrete state and the
\* position of the last scrub, and whether the call just made is the first
\* setExplode(0) or setExplode(1) after it
ScrubAfter(V) ==
  LET ex == V.lastExplode
  IN IF ~ex.ran THEN probe
     ELSE IF 0 < ex.t /\ ex.t < TDen
     THEN [start |-> ex.pre, n |-> ex.t, op |-> "scrub", from |-> 0]
     ELSE IF probe.op = "scrub" THEN [probe EXCEPT !.op = "afterScrub"]
     ELSE NoProbe

\* handle.setExplode(t) from a caller that holds the handle, t in units of
\* 1/TDen and also outside [0, 1]
HandleSetExplode ==
  \E t \in (0 - 1)..(TDen + 1) :
    /\ handle
    /\ \E V1 \in { setExplode(Viewer, t) } :
          /\ SetViewer(V1)
          /\ hist' = Seen("setExplode", 0, NoRegistry, 0 - 1, V1)
          /\ chain' = ChainAfter(V1)
          /\ probe' = ScrubAfter(V1)
    /\ UNCHANGED << mobile, touchVars, loads, nLoads, appVars >>

\* handle.loadGLB(src) from a caller that holds the handle and does nothing
\* more when the promise settles
HandleLoadGLB ==
  \E src \in Sources :
    /\ handle
    /\ nLoads < MaxLoads
    /\ Cardinality(loads) < MaxInflight
    /\ \E V1 \in { loadStart(Viewer) } :
          /\ SetViewer(V1)
          /\ hist' = Seen("loadGLB", nLoads + 1, Registry(Viewer), 0 - 1, V1)
    /\ loads' = loads \cup { [id |-> nLoads + 1, src |-> src, by |-> "caller",
                              pre |-> Registry(Viewer)] }
    /\ nLoads' = nLoads + 1
    /\ chain' = NoChain
    /\ UNCHANGED << mobile, touchVars, appVars, probe >>

\* the loader callback of such a call: it installs the asset when it finds
\* a root, and rejects otherwise
HandleLoadSettled ==
  \E l \in loads :
    /\ l.by = "caller"
    /\ \E V1 \in { IF Decodes(l.src) THEN loadDecoded(Viewer, l.id, l.src) ELSE Viewer } :
          /\ SetViewer(V1)
          /\ hist' = Seen(IF Decodes(l.src) THEN "loadResolved" ELSE "loadRejected",
                          l.id, l.pre, 0 - 1, V1)
    /\ loads' = loads \ {l}
    /\ chain' = NoChain
    /\ UNCHANGED << mobile, touchVars, nLoads, appVars, probe >>

\* the factors k > 0 a caller passes to handle.dolly, as logarithms: from
\* factors that cross the whole range of distances inwards to factors that
\* cross it outwards, 0 being the factor 1
DollyFactors == (0 - 2 * DistSpan - 1)..(2 * DistSpan + 1)

\* handle.dolly(k) from a caller that holds the handle
HandleDolly ==
  \E k \in DollyFactors :
    /\ handle
    /\ \E V1 \in { hDolly(Viewer, k) } :
          /\ SetViewer(V1)
          /\ hist' = [Seen("dolly", 0, NoRegistry, 0 - 1, V1) EXCEPT !.g = DollySeen(V1)]
    /\ chain' = NoChain
    /\ UNCHANGED << mobile, touchVars, loads, nLoads, appVars, probe >>

\* a click on the "View in AR" button of the dock, on a browser of each
\* kind, on an iOS device or not
OnClickViewInAR ==
  \E host \in ARHosts, ios \in BOOLEAN :
    /\ hist' = [Seen("viewInAR", 0, NoRegistry, 0 - 1, Viewer) EXCEPT
                  !.ar = [onClickViewInAR(host, ios, handle, mobile) EXCEPT
                            !.host = host, !.ios = ios]]
    /\ UNCHANGED << mobile, touchVars, viewerVars, loads, nLoads, appVars, chain, probe >>

\* how far the calls made so far are into isolateIndex(null),
\* isolateIndex(i), isolateIndex(null) for a part index i
RoundTripAfter(i) ==
  IF i = 0 - 1
  THEN [NoProbe EXCEPT !.op = "isolate", !.n = IF probe.op = "isolate" /\ probe.n = 2
                                                THEN 3 ELSE 1,
                       !.from = IF probe.op = "isolate" /\ probe.n = 2
                                THEN probe.from ELSE 0]
  ELSE IF i < Len(parts) /\ probe.op = "isolate" /\ probe.n \in {1, 3}
  THEN [NoProbe EXCEPT !.op = "isolate", !.n = 2, !.from = i]
  ELSE NoProbe

\* handle.isolateIndex(i, dimOpacity) for one call; i = -1 is null,
\* dimOpacity = -1 is absent
IsolateIndex(i, dim) ==
  /\ handle
  /\ \E V1 \in { isolatePart(Viewer, i, dim) } :
        /\ SetViewer(V1)
        /\ hist' = [Seen("isolateIndex", 0, NoRegistry, 0 - 1, V1) EXCEPT
                      !.h = [NoHandleCall EXCEPT !.fn = "isolateIndex", !.i = i,
                                                 !.dim = dim, !.preVisible = partVisible]]
  /\ probe' = RoundTripAfter(i)
  /\ UNCHANGED << mobile, touchVars, loads, nLoads, appVars, chain >>

\* the dimOpacity values a caller passes: none, below, within and above
\* the range isolatePart clamps to
HandleIsolateIndex ==
  \E i \in (0 - 1)..MaxIndex, dim \in {0 - 1, 1, 22, 60} : IsolateIndex(i, dim)

\* handle.setVisibleIndices(indices) for one call
SetVisibleIndices(indices) ==
  /\ handle
  /\ \E V1 \in { applyVisibilityMask(Viewer, indices) } :
        /\ SetViewer(V1)
        /\ hist' = [Seen("setVisibleIndices", 0, NoRegistry, 0 - 1, V1) EXCEPT
                      !.h = [NoHandleCall EXCEPT !.fn = "setVisibleIndices",
                                                 !.mask = indices,
                                                 !.preVisible = partVisible]]
  /\ probe' = NoProbe
  /\ UNCHANGED << mobile, touchVars, loads, nLoads, appVars, chain >>

HandleSetVisibleIndices ==
  \E indices \in {NullMask} \cup { ListMask(S) : S \in SUBSET (0..MaxIndex) } :
    SetVisibleIndices(indices)

Next ==
  \/ InitViewerResolved
  \/ InitViewerRejected
  \/ OnPickGLB
  \/ OnDrop
  \/ LoadResolved
  \/ LoadRejected
  \/ NextButton
  \/ PrevButton
  \/ SelectStage
  \/ ResetButton
  \/ OnWheel(BOOLEAN)
  \/ WheelCooldownTimeout
  \/ TimePasses
  \/ OnTouchStart(1..3)
  \/ OnTouchMove
  \/ OnTouchEnd
  \/ RenderFrame
  \/ ZoomFrame

Spec == Init /\ [][Next]_vars

\* Sessions in which the user loads assets and steps through the stages with
\* the buttons and swipes, on a viewer whose frames are not observed: every
\* load interleaving, no animation progress.
NextLoads ==
  \/ InitViewerResolved
  \/ InitViewerRejected
  \/ OnPickGLB
  \/ OnDrop
  \/ LoadResolved
  \/ LoadRejected
  \/ NextButton
  \/ PrevButton
  \/ SelectStage
  \/ ResetButton
  \/ OnTouchStart({1})
  \/ OnTouchEnd

SpecLoads == Init /\ [][NextLoads]_vars

\* Sessions on the asset initViewer loaded: stage changes, render frames and
\* the frames of the smooth dolly, in every interleaving.
NextExplode ==
  \/ InitViewerResolved
  \/ InitViewerRejected
  \/ NextButton
  \/ PrevButton
  \/ SelectStage
  \/ ResetButton
  \/ RenderFrame
  \/ ZoomFrame

SpecExplode == Init /\ [][NextExplode]_vars

\* Sessions of wheel events on the asset initViewer loaded: events with and
\* without modifier key, the cooldown timeout and the passing of time, in
\* every interleaving.
NextWheel ==
  \/ InitViewerResolved
  \/ InitViewerRejected
  \/ OnWheel(BOOLEAN)
  \/ WheelCooldownTimeout
  \/ TimePasses

SpecWheel == Init /\ [][NextWheel]_vars

\* The wheel sessions under the browser's scheduling: time goes on, and a
\* timeout whose delay has passed gets its callback run.
SpecWheelFair ==
  /\ Init
  /\ [][NextWheel]_vars
  /\ WF_vars(TimePasses)
  /\ WF_vars(WheelCooldownTimeout)

\* Sessions of touch gestures on the asset initViewer loaded: one, two and
\* three fingers, pinches and swipes, in every interleaving.
NextTouch ==
  \/ InitViewerResolved
  \/ InitViewerRejected
  \/ OnTouchStart(1..3)
  \/ OnTouchMove
  \/ OnTouchEnd

SpecTouch == Init /\ [][NextTouch]_vars

\* Sessions of touch gestures on the default asset, or on one whose load fails.
InitPinch == Init /\ \A l \in loads : l.src \in {"bed", "corrupt"}

SpecPinch == InitPinch /\ [][NextTouch]_vars

\* Sessions of a caller that isolates parts and masks their visibility
\* through the handle, on the asset initViewer loaded.
NextParts ==
  \/ InitViewerResolved
  \/ InitViewerRejected
  \/ HandleIsolateIndex
  \/ HandleSetVisibleIndices

SpecParts == Init /\ [][NextParts]_vars

\* Sessions of a caller that drives handle.setExplode directly on the asset
\* initViewer loaded, scrub positions included, with render frames and the
\* frames of the smooth dolly in every interleaving.
NextScrub ==
  \/ InitViewerResolved
  \/ InitViewerRejected
  \/ HandleSetExplode
  \/ RenderFrame
  \/ ZoomFrame

SpecScrub == Init /\ [][NextScrub]_vars

\* Sessions in which assets are loaded, some of which fail to decode, while
\* the renderer runs its animation loop, up to the unmounting of the
\* component.
NextLoop ==
  \/ InitViewerResolved
  \/ InitViewerRejected
  \/ OnPickGLB
  \/ LoadResolved
  \/ LoadRejected
  \/ RenderFrame
  \/ Dispose

SpecLoop == Init /\ [][NextLoop]_vars

\* The life of the component: it mounts (Init), steps through stages once
\* it holds the handle, and unmounts before or after initViewer has settled.
\* The promise of initViewer settles, and the animation loop runs while the
\* renderer holds it.
NextMount ==
  \/ InitViewerResolved
  \/ InitViewerRejected
  \/ InitViewerResolvedUnmounted
  \/ UnmountEarly
  \/ SelectStage
  \/ RenderFrame
  \/ Dispose

\* the promise initViewer returned is pending
InitPending == \E l \in loads : l.by = "init"

SpecMount ==
  /\ Init
  /\ [][NextMount]_vars
  /\ <>(~InitPending)
  /\ WF_vars(RenderFrame)

\* Sessions in which the component unmounts in any stage and a caller that
\* kept the handle goes on issuing commands.
NextDisposed ==
  \/ InitViewerResolved
  \/ InitViewerRejected
  \/ SelectStage
  \/ Dispose
  \/ CommandAfterDispose

SpecDisposed == Init /\ [][NextDisposed]_vars

\* Sessions of a caller that drives the viewer through the handle alone:
\* loadGLB calls that may overlap, setExplode with every t, and dispose.
NextViewer ==
  \/ InitViewerResolved
  \/ InitViewerRejected
  \/ HandleLoadGLB
  \/ HandleLoadSettled
  \/ HandleSetExplode
  \/ Dispose

SpecViewer == Init /\ [][NextViewer]_vars

\* Sessions of a caller that dollies the camera through the handle, by every
\* factor from every distance, on the asset initViewer loaded.
NextDolly ==
  \/ InitViewerResolved
  \/ InitViewerRejected
  \/ HandleDolly

SpecDolly == Init /\ [][NextDolly]_vars

\* Sessions in which the user clicks "View in AR" on browsers of every kind,
\* between stage changes, on the asset initViewer loaded.
NextAR ==
  \/ InitViewerResolved
  \/ InitViewerRejected
  \/ SelectStage
  \/ OnClickViewInAR

SpecAR == Init /\ [][NextAR]_vars

\* ------------------------------------------------------- stage arithmetic
\* The stage arithmetic on its own: a fixed named-section list, as
\* parseNamedParts returns it for an asset of n sections, every stage of it
\* as the start, and nextStage / prevStage of the render that holds that list
\* applied in any order.  probe records the run of nextStage applications in
\* progress (the stage it started from and its length) and the last step.
SectionName(k) == <<"s", "e", "c", " ", DigitChar(k)>>

\* the part names of an asset of n sections, highest number first
SectionAsset(n) == [i \in 1..n |-> SectionName(n + 1 - i)]

InitStage ==
  /\ mobile = FALSE
  /\ attached = <<>>
  /\ pivot = FALSE
  /\ currentModel = 0
  /\ parts = <<>>
  /\ partNames = <<>>
  /\ partVisible = <<>>
  /\ partOpacity = <<>>
  /\ savedMatProps = <<>>
  /\ mixer = 0
  /\ actions = NoClips
  /\ clipNames = <<>>
  /\ clipDurations = NoClips
  /\ explodeState = 0
  /\ explodedZoomApplied = FALSE
  /\ zoomAnimRAF = 0
  /\ rafQueue = {}
  /\ dist = InitDist
  /\ centroid = Origin
  /\ target_desired = Origin
  /\ controlsTarget = Origin
  /\ animationLoop = TRUE
  /\ scene = TRUE
  /\ loads = {}
  /\ nLoads = 0
  /\ handle = FALSE
  /\ mounted = TRUE
  /\ \E n \in 0..MaxSections : namedParts = parseNamedParts(SectionAsset(n))
  /\ stage \in 0..(totalStages(namedParts) - 1)
  /\ gestureTotal = totalStages(namedParts)
  /\ wheelCooldown = FALSE
  /\ sinceWheel = WHEEL_COOLDOWN
  /\ touchStart = FALSE
  /\ pinchActive = FALSE
  /\ pinchStartDist = ZeroSpread
  /\ hist = Seen("init", 0, NoRegistry, 0 - 1, Viewer)
  /\ chain = NoChain
  /\ probe = [start |-> stage, n |-> 0, op |-> "none", from |-> stage]

stageOnly == << mobile, viewerVars, loads, nLoads, handle, mounted, namedParts, gestureTotal,
                wheelCooldown, sinceWheel, touchVars, hist, chain >>

\* setStage(nextStage())
ApplyNextStage ==
  /\ stage' = nextStage(stage, totalStages(namedParts))
  /\ probe' = IF probe.op = "next" /\ probe.n < totalStages(namedParts)
              THEN [probe EXCEPT !.n = @ + 1, !.from = stage]
              ELSE [start |-> stage, n |-> 1, op |-> "next", from |-> stage]
  /\ UNCHANGED stageOnly

\* setStage(prevStage())
ApplyPrevStage ==
  /\ stage' = prevStage(stage, totalStages(namedParts))
  /\ probe' = [start |-> stage, n |-> 1, op |-> "prev", from |-> stage]
  /\ UNCHANGED stageOnly

NextStageOnly ==
  \/ ApplyNextStage
  \/ ApplyPrevStage

SpecStage == InitStage /\ [][NextStageOnly]_vars

\* C5: from every stage s of a fixed named-section list, nextStage applied
\* totalStages times in a row brings the stage back to s.
NextStageCycles ==
  (probe.op = "next" /\ probe.n = totalStages(namedParts)) => stage = probe.start

\* a run of five nextStage applications over three sections, started from
\* stage 3, has just ended
NextStageCycleDone ==
  /\ probe.op = "next"
  /\ Len(namedParts) = 3
  /\ probe.n = 5
  /\ probe.start = 3
  /\ probe.from = 2

\* C6: the stage arithmetic is the floor modulo over totalStages: nextStage
\* yields (s + 1) mod totalStages and prevStage (s - 1) mod totalStages with
\* a result in [0, totalStages), so prevStage of 0 is totalStages - 1,
\* nextStage of totalStages - 1 is 0, and with two sections prevStage of 0
\* is 3.
StageFloorModulo ==
  LET total == totalStages(namedParts)
  IN /\ probe.op = "next" => stage = (probe.from + 1) % total
     /\ probe.op = "prev" => stage = (probe.from - 1) % total
     /\ (probe.op = "prev" /\ probe.from = 0) => stage = total - 1
     /\ (probe.op = "next" /\ probe.from = total - 1) => stage = 0
     /\ (probe.op = "prev" /\ probe.from = 0 /\ Len(namedParts) = 2) => stage = 3

\* prevStage has just been applied to stage 0 of a two-section list
PrevStageWrapped ==
  /\ probe.op = "prev"
  /\ probe.from = 0
  /\ Len(namedParts) = 2
  /\ stage = 3

\* ------------------------------------------------------------ part names
\* parseNamedParts on its own: the part names getPartNames() returns, drawn
\* as every list of at most MaxNames names of NameQueries, and the App
\* deriving its section list from them (setNamedParts(parseNamedParts(..))).
\* The names: the three spellings of section 4, two names with text around
\* the pattern, white space and a leading zero, sections 1 and 12, a token
\* without number, a number without token, a token broken by a space, and
\* the label of a nameless part.
NameQueries ==
  { <<"S", "e", "c", "t", "i", "o", "n", " ", "4">>,
    <<"s", "e", "c", "4">>,
    <<"S", "E", " ", "4">>,
    <<"S", "e", "c", "t", "i", "o", "n", " ", "4", "a">>,
    <<"f", "o", "o", " ", "s", "e", "c", " ", "4">>,
    <<" ", "s", "e", "c", "\t", "0", "4", " ">>,
    <<"s", "e", "1">>,
    <<"s", "e", "c", "t", "i", "o", "n", "1", "2">>,
    <<"s", "e", "c">>,
    <<"4">>,
    <<"s", "e", " ", "c", "4">>,
    <<"P", "a", "r", "t", " ", "1">> }

NameLists == UNION { [1..n -> NameQueries] : n \in 0..MaxNames }

InitNames ==
  /\ mobile = FALSE
  /\ attached = <<>>
  /\ pivot = FALSE
  /\ currentModel = 0
  /\ parts = <<>>
  /\ partNames \in NameLists
  /\ partVisible = <<>>
  /\ partOpacity = <<>>
  /\ savedMatProps = <<>>
  /\ mixer = 0
  /\ actions = NoClips
  /\ clipNames = <<>>
  /\ clipDurations = NoClips
  /\ explodeState = 0
  /\ explodedZoomApplied = FALSE
  /\ zoomAnimRAF = 0
  /\ rafQueue = {}
  /\ dist = InitDist
  /\ centroid = Origin
  /\ target_desired = Origin
  /\ controlsTarget = Origin
  /\ animationLoop = TRUE
  /\ scene = TRUE
  /\ loads = {}
  /\ nLoads = 0
  /\ handle = FALSE
  /\ mounted = TRUE
  /\ namedParts = <<>>
  /\ stage = 0
  /\ gestureTotal = totalStages(<<>>)
  /\ wheelCooldown = FALSE
  /\ sinceWheel = WHEEL_COOLDOWN
  /\ touchStart = FALSE
  /\ pinchActive = FALSE
  /\ pinchStartDist = ZeroSpread
  /\ hist = Seen("init", 0, NoRegistry, 0 - 1, Viewer)
  /\ chain = NoChain
  /\ probe = NoProbe

\* setNamedParts(parseNamedParts(h.getPartNames()))
ParseNames ==
  /\ hist.op = "init"
  /\ namedParts' = parseNamedParts(partNames)
  /\ hist' = Seen("parseNamedParts", 0, NoRegistry, 0 - 1, Viewer)
  /\ UNCHANGED << mobile, viewerVars, loads, nLoads, handle, mounted, stage, gestureTotal,
                  wheelCooldown, sinceWheel, touchVars, chain, probe >>

NextNames == ParseNames

SpecNames == InitNames /\ [][NextNames]_vars

\* ------------------------------------------------------------ properties
\* C1: in every state of the App that holds a handle, the stage index lies in
\* [0, totalStages), totalStages being 2 + the number of named sections the
\* App holds for the loaded asset.
StageInRange ==
  handle => (0 <= stage /\ stage < totalStages(namedParts))

\* what getPartNames(), partCount() and getAnimations() return
Queries(r) == [names |-> r.names, count |-> r.count, clips |-> r.clips]

\* C2: when a loadGLB call made while an asset was loaded is rejected, the
\* asset it found is still attached and the part names, the part count and
\* the clip table are what they were before the call.
FailedLoadKeepsAsset ==
  (hist.op = "loadRejected" /\ hist.pre.model # 0) =>
     /\ attached = hist.pre.attached
     /\ Queries(Registry(Viewer)) = Queries(hist.pre)

\* C3: at most one asset root is attached to the scene, whatever the
\* interleaving of overlapping loadGLB calls.
OneRootAttached == Len(attached) <= 1

\* the registry a loadGLB call of source src leaves when it decodes
PostQueries(l) ==
  IF Decodes(l.src) THEN Queries(Registry(loadDecoded(Viewer, l.id, l.src)))
  ELSE Queries(l.pre)

\* C4: while one loadGLB call is in progress, the part names, the part count
\* and the clip names the handle returns are those from before the call or
\* those the call leaves: never an emptied or partly filled registry.
RegistryNeverPartial ==
  \A l \in loads :
    loads = {l} => Queries(Registry(Viewer)) \in { Queries(l.pre), PostQueries(l) }

\* the calls applyStage is to issue for stage idx of the section list np
ExpectedCalls(idx, np) ==
  IF idx = 0
  THEN << [fn |-> "setExplode", i |-> 0, dim |-> 0 - 1, name |-> <<>>],
          [fn |-> "isolateIndex", i |-> 0 - 1, dim |-> 0 - 1, name |-> <<>>],
          [fn |-> "setOrbitTargetTo", i |-> 0 - 1, dim |-> 0 - 1, name |-> <<>>] >>
  ELSE IF idx = 1
  THEN << [fn |-> "setExplode", i |-> 1, dim |-> 0 - 1, name |-> <<>>],
          [fn |-> "isolateIndex", i |-> 0 - 1, dim |-> 0 - 1, name |-> <<>>],
          [fn |-> "setOrbitTargetTo", i |-> 0 - 1, dim |-> 0 - 1, name |-> <<>>] >>
  ELSE << [fn |-> "setExplode", i |-> 1, dim |-> 0 - 1, name |-> <<>>],
          [fn |-> "isolateIndex", i |-> np[idx - 1].index, dim |-> 22, name |-> <<>>],
          [fn |-> "setOrbitTargetByName", i |-> 0 - 1, dim |-> 0 - 1,
           name |-> np[idx - 1].name] >>

\* the section list is in ascending order of section number
SectionsSorted ==
  \A j, k \in DOMAIN namedParts : j < k => namedParts[j].num <= namedParts[k].num

UnresolvedNameFallsBack ==
  (/\ hist.applied >= 2
   /\ hist.applied < totalStages(namedParts)
   /\ getWorldPosByName(Viewer, namedParts[hist.applied - 1].name) = NoPoint)
  => target_desired = centroid

\* the clips of the loaded asset: the actions of the mixer in use
LoadedClips == { n \in DOMAIN actions : actions[n].mixer = mixer }

\* the step callback the browser holds for the smooth dolly in progress
ZoomPending(k, start) ==
  /\ zoomAnimRAF # 0
  /\ \E q \in rafQueue : q.id = zoomAnimRAF /\ q.k = k /\ q.start = start /\ q.t = 0

Settled ==
  /\ rafQueue = {}
  /\ \A n \in LoadedClips : actions[n].paused

\* C10: a second setExplode(1) in a row starts no zoom and leaves the
\* discrete state exploded, every clip at its end time and the camera
\* distance as it found it; and once the clips and the zoom have settled,
\* the clip times, the discrete state and the camera distance after two
\* calls in a row are those after one call: every clip at its end, exploded,
\* the distance the first call found scaled once by EXPLODED_ZOOM_FACTOR.
SecondExplodeIdempotent ==
  LET ex == hist.ex
  IN /\ (ex.ran /\ ex.t >= TDen /\ ex.pre = 1) =>
          /\ rafQueue = ex.preQueue
          /\ zoomAnimRAF = ex.preRAF
          /\ dist = ex.preDist
          /\ explodeState = 1
          /\ \A n \in LoadedClips :
               actions[n].time = clipDurations[n] /\ actions[n].paused
     /\ (chain.n >= 1 /\ Settled) =>
          /\ explodeState = 1
          /\ dist = Clamp(chain.d0 + ZoomUnits, DistMin, DistMax)
          /\ \A n \in LoadedClips : actions[n].time = clipDurations[n]

\* setExplode(1) was called twice in a row, and the clips and the zoom have
\* since settled one zoom factor out
SettledAfterSecondExplode ==
  /\ chain.n = 2
  /\ Settled
  /\ LoadedClips # {}
  /\ dist = chain.d0 + ZoomUnits

\* C11: setExplode(t) with 0 < t < 1 leaves every clip paused at duration * t
\* (to within Eps, the resolution of clip time), and leaves the discrete
\* explode state, the exploded-zoom flag, the pending zoom callbacks and the
\* camera distance as it found them; the first setExplode(0) or
\* setExplode(1) after a scrub acts on the discrete state the scrub found:
\* setExplode(1) plays from time 0 and zooms out when that state is overview
\* and snaps to the end without zoom when it is exploded, setExplode(0) plays
\* in reverse from the end and zooms in when it is exploded and snaps to time
\* 0 without zoom when it is overview.
ScrubKeepsDiscreteState ==
  LET ex == hist.ex
  IN /\ (ex.ran /\ 0 < ex.t /\ ex.t < TDen) =>
          /\ LoadedClips # {}
          /\ \A n \in LoadedClips :
               /\ actions[n].paused
               /\ TDen * actions[n].time <= clipDurations[n] * ex.t
               /\ clipDurations[n] * ex.t < TDen * (actions[n].time + Eps)
          /\ explodeState = ex.pre
          /\ explodedZoomApplied = ex.preApplied
          /\ rafQueue = ex.preQueue
          /\ zoomAnimRAF = ex.preRAF
          /\ dist = ex.preDist
     /\ (ex.ran /\ probe.op = "afterScrub") =>
          /\ ex.pre = probe.start
          /\ (ex.t >= TDen /\ probe.start = 0) =>
               /\ \A n \in LoadedClips :
                    actions[n].time = 0 /\ actions[n].timeScale = 1 /\ ~actions[n].paused
               /\ ZoomPending(ZoomUnits, ex.preDist)
               /\ explodeState = 1
          /\ (ex.t >= TDen /\ probe.start = 1) =>
               /\ \A n \in LoadedClips :
                    actions[n].time = clipDurations[n] /\ actions[n].paused
               /\ rafQueue = ex.preQueue
               /\ zoomAnimRAF = ex.preRAF
               /\ explodeState = 1
          /\ (ex.t <= 0 /\ probe.start = 1) =>
               /\ \A n \in LoadedClips :
                    /\ actions[n].time >= clipDurations[n] - Eps
                    /\ actions[n].timeScale = 0 - 1
                    /\ ~actions[n].paused
               /\ ZoomPending(0 - ZoomUnits, ex.preDist)
               /\ explodeState = 0
          /\ (ex.t <= 0 /\ probe.start = 0) =>
               /\ \A n \in LoadedClips :
                    actions[n].time = 0 /\ actions[n].paused
               /\ rafQueue = ex.preQueue
               /\ zoomAnimRAF = ex.preRAF
               /\ explodeState = 0

\* the "bed" asset was scrubbed to the middle while exploded, and the
\* setExplode(1) that followed has snapped its clips to their end without a
\* zoom
SnappedAfterScrub ==
  /\ hist.ex.ran
  /\ hist.ex.t = TDen
  /\ probe.op = "afterScrub"
  /\ probe.start = 1
  /\ probe.n = 1
  /\ LoadedClips = {"Explode", "Lift"}
  /\ actions["Lift"].time = 4
  /\ actions["Lift"].paused

\* C12: a setExplode call made while the asset currentModel refers to has no
\* animation clips, or while currentModel is null, leaves the discrete
\* explode state, the exploded-zoom flag, the camera distance and the pending
\* zoom callbacks as it found them.
NoClipsNoExplode ==
  LET ex == hist.ex
  IN (ex.called /\ ex.clips = 0) =>
       /\ explodeState = ex.pre
       /\ explodedZoomApplied = ex.preApplied
       /\ dist = ex.preDist
       /\ rafQueue = ex.preQueue

\* C13: every wheel event without modifier that changes the stage comes at
\* least WHEEL_COOLDOWN ms after the previous one that did, and for as long
\* as fewer than WHEEL_COOLDOWN ms have passed since an accepted event the
\* cooldown flag is set, so that onWheel ignores an event without modifier.
WheelCooldownSpacing ==
  /\ hist.g.kind = "wheel" => hist.g.gap >= WHEEL_COOLDOWN
  /\ sinceWheel < WHEEL_COOLDOWN => wheelCooldown

\* a wheel event has taken the stage from 1 to 2, a full cooldown after the
\* event that took it to 1, and TickMs have passed since
WheelAcceptedAgain ==
  /\ hist.g.kind = "wheel"
  /\ hist.g.from = 1
  /\ hist.g.dy = WheelThreshold
  /\ stage = 2
  /\ wheelCooldown
  /\ sinceWheel = TickMs

\* C14: a wheel event without modifier whose |deltaY| is below the threshold
\* changes neither the stage nor the cooldown flag, and one that is accepted
\* (at or above the threshold, no cooldown running) sets the stage to the
\* next stage of the loaded asset's stage list when deltaY > 0 and to the
\* previous one when deltaY < 0.
WheelStepsOneStage ==
  [][\A dy \in WheelDeltas(mobile) :
       WheelEvent(dy, FALSE) =>
         IF Abs(dy) < WheelThreshold THEN UNCHANGED << stage, wheelCooldown >>
         ELSE IF wheelCooldown THEN UNCHANGED stage
         ELSE /\ wheelCooldown'
              /\ stage' = IF dy > 0 THEN nextStage(stage, totalStages(namedParts))
                                     ELSE prevStage(stage, totalStages(namedParts))]_vars

\* C15: when a single-finger touch is released, displaced by (dx, dy) after
\* dt ms: if |dy| > 44, |dy| > 1.5 |dx| and dt < 600 the stage becomes the
\* next stage of the loaded asset's stage list for dy < 0 and the previous
\* one otherwise; in every other case the stage is unchanged.
SwipeStepsOneStage ==
  [][\A touch \in Touches :
       (touchStart /\ ~pinchActive /\ TouchEnd(0, touch)) =>
         IF /\ Abs(touch[2]) > 44
            /\ 2 * Abs(touch[2]) > 3 * Abs(touch[1])
            /\ touch[3] < 600
         THEN stage' = IF touch[2] < 0
                       THEN nextStage(stage, totalStages(namedParts))
                       ELSE prevStage(stage, totalStages(namedParts))
         ELSE stage' = stage]_vars

\* C16: a touch-move with two touches during a pinch whose previous finger
\* spread is > 0 issues exactly one dolly, by the reciprocal of the ratio
\* current / previous spread clamped to [0.2, 5] (as logarithms: minus the
\* difference clamped to +-PinchClamp), the camera distance follows it, and
\* the previous spread becomes the current one.
PinchDolliesInverse ==
  [][\A d \in Spreads :
       (pinchActive /\ pinchStartDist # ZeroSpread /\ TouchMove(2, d)) =>
         /\ hist'.g.dollies =
              << 0 - Max2(0 - PinchClamp, Min2(PinchClamp, d - pinchStartDist)) >>
         /\ dist' =
              Clamp(dist - Max2(0 - PinchClamp, Min2(PinchClamp, d - pinchStartDist)),
                    DistMin, DistMax)
         /\ pinchStartDist' = d]_vars

\* a pinch that started at 100 px has just been opened to about 150 px: one
\* dolly by the reciprocal of the ratio, and the spread kept for the next move
PinchOpened ==
  /\ hist.g.kind = "pinch"
  /\ hist.g.d0 = 0
  /\ hist.g.d1 = 3
  /\ hist.g.dollies = << 0 - 3 >>
  /\ pinchActive
  /\ pinchStartDist = 3

\* C17: a wheel event with ctrl or meta held issues exactly one dolly, by
\* exp(deltaY * 0.0015), and changes neither the stage nor the cooldown flag
\* nor the cooldown clock; it is handled in every state that holds the
\* handle, cooldown running or not; a wheel event without modifier issues
\* no dolly and leaves the camera distance alone.
ModifierWheelDollies ==
  /\ [](handle => ENABLED (/\ WheelEvent(WheelUnit(mobile), TRUE)
                            /\ hist'.g.dollies = << 1 >>))
  /\ [][\A dy \in WheelDeltas(mobile) :
          /\ WheelEvent(dy, TRUE) =>
               /\ hist'.g.dollies = << dy \div WheelUnit(mobile) >>
               /\ dist' = Clamp(dist + dy \div WheelUnit(mobile), DistMin, DistMax)
               /\ UNCHANGED << stage, wheelCooldown, sinceWheel >>
          /\ WheelEvent(dy, FALSE) =>
               /\ dist' = dist
               /\ hist'.g.dollies = <<>>]_vars

\* a wheel event with a modifier key has dollied by one unit while the
\* cooldown of an accepted wheel event was running
DolliedDuringCooldown ==
  /\ hist.g.kind = "wheelDolly"
  /\ hist.g.cooldown
  /\ hist.g.dollies = << 1 >>
  /\ dist = hist.g.preDist + 1
  /\ stage = 1
  /\ wheelCooldown
  /\ sinceWheel < WHEEL_COOLDOWN

\* C18: an isolateIndex call leaves the visible flag of every part as it
\* found it, also after setVisibleIndices has hidden parts.
IsolateKeepsVisible ==
  hist.h.fn = "isolateIndex" => partVisible = hist.h.preVisible

\* C19: after isolateIndex(null), isolateIndex(i), isolateIndex(null) for a
\* part index i, the material opacity of every part is the base opacity
\* cloneMaterials recorded for it at load time.
IsolateRoundTrip ==
  (probe.op = "isolate" /\ probe.n = 3) =>
     \A k \in DOMAIN parts : partOpacity[k] = savedMatProps[k]

\* C20: after setVisibleIndices of a list, every part whose index is not in
\* the list is hidden with opacity 0 and every part whose index is in it is
\* visible; after setVisibleIndices(null) every part is visible.
MaskHidesOthers ==
  hist.h.fn = "setVisibleIndices" =>
     /\ DOMAIN partVisible = DOMAIN parts
     /\ \A k \in DOMAIN parts :
          IF hist.h.mask.isNull THEN partVisible[k]
          ELSE IF (k - 1) \in hist.h.mask.keep THEN partVisible[k]
          ELSE ~partVisible[k] /\ partOpacity[k] = 0

\* setVisibleIndices([0, 2]) on the three parts of the "bed" asset, all
\* hidden before: the second part is hidden with opacity 0, the others show
MaskedMiddlePart ==
  /\ hist.h.fn = "setVisibleIndices"
  /\ hist.h.mask = ListMask({0, 2})
  /\ hist.h.preVisible = << FALSE, FALSE, FALSE >>
  /\ partVisible = << TRUE, FALSE, TRUE >>
  /\ partOpacity[2] = 0
  /\ partOpacity[1] >= 98

\* the entries of the section list just derived, by position
NumAt(j) == namedParts[j].num
IndexAt(j) == namedParts[j].index

\* C21 as stated: the section list parseNamedParts returns is in strictly
\* ascending order of section number, for every list of part names.
NamedPartsStrictlyAscending ==
  hist.op = "parseNamedParts" =>
     \A j, k \in DOMAIN namedParts : j < k => NumAt(j) < NumAt(k)

\* C21, amended: the section list parseNamedParts returns is in ascending
\* order of section number, names of equal number each keeping their entry,
\* in the order of the part list; it holds one entry for every part name
\* that matches the pattern and none for any other.
NamedPartsAscending ==
  hist.op = "parseNamedParts" =>
     /\ \A j, k \in DOMAIN namedParts :
          j < k => \/ NumAt(j) < NumAt(k)
                   \/ NumAt(j) = NumAt(k) /\ IndexAt(j) < IndexAt(k)
     /\ { IndexAt(j) : j \in DOMAIN namedParts } =
          { i - 1 : i \in { h \in DOMAIN partNames : RxExec(Trim(partNames[h])) >= 0 } }
     /\ \A j \in DOMAIN namedParts : namedParts[j].name = partNames[IndexAt(j) + 1]

\* the names "Section 4", "se1", "sec4" have been parsed: section 1 comes
\* first, and the two sections numbered 4 follow in the order of the parts
DuplicateSectionsKept ==
  /\ hist.op = "parseNamedParts"
  /\ partNames = << <<"S", "e", "c", "t", "i", "o", "n", " ", "4">>,
                    <<"s", "e", "1">>, <<"s", "e", "c", "4">> >>
  /\ Len(namedParts) = 3
  /\ << NumAt(1), NumAt(2), NumAt(3) >> = << 1, 4, 4 >>
  /\ << IndexAt(1), IndexAt(2), IndexAt(3) >> = << 1, 0, 2 >>

RECURSIVE Pow10(_)
Pow10(n) == IF n = 0 THEN 1 ELSE 10 * Pow10(n - 1)

\* the ways to read the text t as a token (in any case), then k spaces, then
\* digits to the end
Readings(t) ==
  { r \in SectionTokens \X (0..Len(t)) :
      /\ Len(r[1]) + r[2] < Len(t)
      /\ \A i \in 1..Len(r[1]) : Lower(t[i]) = r[1][i]
      /\ \A i \in (Len(r[1]) + 1)..(Len(r[1]) + r[2]) : IsSpace(t[i])
      /\ \A i \in (Len(r[1]) + r[2] + 1)..Len(t) : IsDigit(t[i]) }

\* the number the digits of a reading write, in decimal
ReadingValue(t, r) ==
  LET first == Len(r[1]) + r[2] + 1
      D[i \in first..(Len(t) + 1)] ==
        IF i > Len(t) THEN 0 ELSE DigitVal(t[i]) * Pow10(Len(t) - i) + D[i + 1]
  IN D[first]

\* the text of a name without the white space at its ends
Trimmed(name) ==
  IF \A i \in DOMAIN name : IsSpace(name[i]) THEN <<>>
  ELSE SubSeq(name,
              CHOOSE a \in DOMAIN name :
                ~IsSpace(name[a]) /\ \A i \in 1..(a - 1) : IsSpace(name[i]),
              CHOOSE b \in DOMAIN name :
                ~IsSpace(name[b]) /\ \A i \in (b + 1)..Len(name) : IsSpace(name[i]))

\* the entries of the section list for the part at position i of the names
EntriesOf(i) == { j \in DOMAIN namedParts : IndexAt(j) = i - 1 }

\* C22: a part name has an entry in the section list exactly when its whole
\* trimmed text is, in any case, one of the tokens sec, se, section followed
\* by (optional white space and) decimal digits with nothing after them, and
\* the entry carries the number the digits write: "Section 4", "sec4" and
\* "SE 4" are section 4, "Section 4a" and "foo sec 4" are no sections.
SectionNamePattern ==
  hist.op = "parseNamedParts" =>
     \A i \in DOMAIN partNames :
        LET t == Trimmed(partNames[i])
        IN /\ IF Readings(t) # {}
              THEN /\ Cardinality(EntriesOf(i)) = 1
                   /\ \A j \in EntriesOf(i), r \in Readings(t) :
                        NumAt(j) = ReadingValue(t, r)
              ELSE EntriesOf(i) = {}
           /\ partNames[i] \in { <<"S", "e", "c", "t", "i", "o", "n", " ", "4">>,
                                 <<"s", "e", "c", "4">>, <<"S", "E", " ", "4">> }
                => \E j \in EntriesOf(i) : NumAt(j) = 4
           /\ partNames[i] \in { <<"S", "e", "c", "t", "i", "o", "n", " ", "4", "a">>,
                                 <<"f", "o", "o", " ", "s", "e", "c", " ", "4">> }
                => EntriesOf(i) = {}

\* the names "Section 4a", "SE 4", "foo sec 4" have been parsed: the second
\* alone is a section, number 4
OnlyWholeNameMatches ==
  /\ hist.op = "parseNamedParts"
  /\ partNames = << <<"S", "e", "c", "t", "i", "o", "n", " ", "4", "a">>,
                    <<"S", "E", " ", "4">>,
                    <<"f", "o", "o", " ", "s", "e", "c", " ", "4">> >>
  /\ Len(namedParts) = 1
  /\ IndexAt(1) = 1
  /\ NumAt(1) = 4

\* the promise loadGLB returned has just been rejected
LoadJustRejected == hist.op \in {"loadRejected", "initRejected"}

DollyJustStarted == hist.ex.ran /\ explodedZoomApplied # hist.ex.preApplied

\* C24: at most one step callback of a smooth dolly is pending in any state,
\* and it is the one _zoomAnimRAF refers to; a setExplode call that starts a
\* smooth dolly leaves its own first step as the only pending callback,
\* whatever was pending when it was made.
OneSmoothDolly ==
  /\ Cardinality(rafQueue) <= 1
  /\ \A q \in rafQueue : q.id = zoomAnimRAF
  /\ zoomAnimRAF # 0 => \E q \in rafQueue : q.id = zoomAnimRAF
  /\ DollyJustStarted =>
       /\ rafQueue # {}
       /\ \A q \in rafQueue :
            /\ q.t = 0
            /\ q.start = hist.ex.preDist
            /\ q.k = IF explodedZoomApplied THEN ZoomUnits ELSE 0 - ZoomUnits

\* setExplode(0) has started the zoom-in while the zoom-out was half-way:
\* the step of the zoom-out is gone and the first step of the zoom-in is
\* the one pending callback
ZoomReplacedMidway ==
  /\ DollyJustStarted
  /\ hist.ex.t = 0
  /\ \E q \in hist.ex.preQueue : q.t = 1 /\ q.k = ZoomUnits
  /\ Cardinality(rafQueue) = 1
  /\ \A q \in rafQueue : q.t = 0 /\ q.k = 0 - ZoomUnits

\* C25: after dolly(k), for every factor k > 0 and every distance the call
\* finds, the camera-to-target distance is the distance it found times k,
\* clamped to [minDistance, maxDistance] (as logarithms: plus k); the
\* distance lies within the two limits in every state.
DollyClamps ==
  /\ DistMin <= dist
  /\ dist <= DistMax
  /\ hist.g.kind = "dolly" =>
       /\ Len(hist.g.dollies) = 1
       /\ dist = Max2(DistMin, Min2(DistMax, hist.g.preDist + hist.g.dollies[1]))

\* a dolly by a factor that would carry the camera past maxDistance, made
\* from minDistance, where an earlier dolly had stopped: it stops at
\* maxDistance
DollyStoppedAtMax ==
  /\ hist.g.kind = "dolly"
  /\ hist.g.preDist = DistMin
  /\ hist.g.preDist + hist.g.dollies[1] > DistMax
  /\ dist = DistMax

\* C26: controls.target is written directly only when initViewer frames the
\* first asset (no resetView call is made in these sessions); every other
\* step that changes it is a render frame, which moves it towards the
\* desired target or onto it.  Later loadGLB calls leave it alone.
TargetOnlyApproaches ==
  [][controlsTarget' # controlsTarget =>
       \/ hist'.op = "initResolved"
       \/ /\ hist'.op = "frame"
          /\ controlsTarget' \in {InTransit, target_desired}]_vars

\* C27: every step that changes the stage index or the named-section list
\* runs applyStage for the new stage, and applyStage issues all three
\* commands of that stage: setExplode, isolateIndex and the orbit target.
StageChangeReapplies ==
  [][(stage' # stage \/ namedParts' # namedParts) =>
       /\ hist'.applied = stage'
       /\ Len(hist'.calls) = 3
       /\ hist'.calls[1].fn = "setExplode"
       /\ hist'.calls[2].fn = "isolateIndex"
       /\ hist'.calls[3].fn \in {"setOrbitTargetTo", "setOrbitTargetByName"}]_vars

\* C28: right after a loadGLB call made by the App has settled, resolved or
\* rejected, the named-section list of the App is parseNamedParts of the part
\* names the viewer returns.
NamedPartsFollowLoad ==
  hist.op \in {"loadResolved", "loadRejected"} =>
     namedParts = parseNamedParts(partNames)

\* the click just handled met a host without immersive AR session:
\* navigator.xr missing, isSessionSupported answering false, or the session
\* request made and failing
NoImmersiveAR(ar) ==
  \/ ar.host \in {"noXR", "unsupported"}
  \/ ar.host = "requestFails" /\ ar.requested

\* C29 as stated: a click on "View in AR" where the host offers no immersive
\* AR session shows the user a notification and lets no exception escape.
ARFailureAlerts ==
  NoImmersiveAR(hist.ar) =>
     /\ Len(hist.ar.alerts) >= 1
     /\ ~hist.ar.threw

\* C29, amended: a click on "View in AR" where the host offers no immersive
\* AR session shows the user exactly one notification, or on an iOS device
\* opens the Quick Look anchor in its place; no exception escapes the
\* handler, no session is entered, and the step leaves the stage, the
\* explode state, the part registry and the section list as they were.
ARFailureNotifiesOrQuickLook ==
  /\ [](NoImmersiveAR(hist.ar) =>
          /\ ~hist.ar.threw
          /\ ~hist.ar.entered
          /\ IF hist.ar.quickLook THEN hist.ar.ios /\ hist.ar.alerts = <<>>
             ELSE Len(hist.ar.alerts) = 1)
  /\ [][NoImmersiveAR(hist'.ar) =>
          UNCHANGED << stage, explodeState, parts, partNames, clipNames,
                       namedParts >>]_vars

\* the desktop build on an iOS device whose browser announces immersive AR
\* and then fails the session request, at the exploded stage: the rejection
\* of enterAR is caught and the Quick Look anchor clicked, without alert
QuickLookAfterFailedRequest ==
  /\ hist.ar.host = "requestFails"
  /\ hist.ar.ios
  /\ ~mobile
  /\ handle
  /\ stage = 1
  /\ explodeState = 1
  /\ hist.ar.quickLook
  /\ hist.ar.alerts = <<>>
  /\ ~hist.ar.threw

\* C30: a touch move with two touches during a pinch whose previous finger
\* spread is 0 issues no dolly and leaves the camera distance alone, the
\* spread of the move becoming the previous one; a release whose event
\* carries no changedTouches leaves the stage and the viewer as they were
\* and clears the touch start; both events are handled in every state that
\* holds the handle.  (The conjuncts before TouchRelease follow from it;
\* they come first so that most steps are decided without evaluating it.)
DegenerateTouchIgnored ==
  /\ [](handle => /\ ENABLED TouchMove(2, 0)
                  /\ ENABLED TouchRelease(0, << 0, 0 - 45, 100 >>, FALSE))
  /\ [][\A d \in Spreads :
          (pinchActive /\ pinchStartDist = ZeroSpread /\ TouchMove(2, d)) =>
             /\ hist'.g.dollies = <<>>
             /\ dist' = dist
             /\ pinchStartDist' = d]_vars
  /\ [][\A n \in 0..2, touch \in Touches :
          (/\ ~touchStart'
           /\ IF touchStart THEN hist'.op = "touchEnd" ELSE hist' = hist
           /\ TouchRelease(n, touch, FALSE)) =>
             /\ stage' = stage
             /\ UNCHANGED viewerVars
             /\ ~touchStart']_vars

\* a pinch that started with the two fingers on one point has been moved
\* to a spread of 100 px: no dolly was issued and the camera is where
\* fitCameraToObject put it
ZeroSpreadPinchMoved ==
  /\ hist.g.kind = "pinch"
  /\ hist.g.d0 = ZeroSpread
  /\ hist.g.d1 = 0
  /\ hist.g.dollies = <<>>
  /\ pinchActive
  /\ pinchStartDist = 0
  /\ currentModel = 1
  /\ dist = Asset("bed").fit

\* C31: a setExplode(0) call that finds the discrete state exploded while a
\* clip is playing leaves every clip playing in reverse from its end time
\* (to within the 1e-6 s guard Eps) and the discrete state overview; a
\* setExplode(1) call that finds the discrete state overview while a clip is
\* playing leaves every clip playing forward from time 0 and the discrete
\* state exploded.
OppositeExplodeRestarts ==
  [][LET ex == hist'.ex
     IN (/\ ex.ran
         /\ ex.pre = explodeState
         /\ \E n \in LoadedClips : ~actions[n].paused) =>
          /\ ex.playing
          /\ (ex.t <= 0 /\ explodeState = 1) =>
               /\ explodeState' = 0
               /\ \A n \in DOMAIN actions' : actions'[n].mixer = mixer' =>
                    /\ actions'[n].time <= clipDurations'[n]
                    /\ actions'[n].time >= clipDurations'[n] - Eps
                    /\ actions'[n].timeScale = 0 - 1
                    /\ ~actions'[n].paused
          /\ (ex.t >= TDen /\ explodeState = 0) =>
               /\ explodeState' = 1
               /\ \A n \in DOMAIN actions' : actions'[n].mixer = mixer' =>
                    /\ actions'[n].time = 0
                    /\ actions'[n].timeScale = 1
                    /\ ~actions'[n].paused]_vars

\* setExplode(1) has just found the clips of the "bed" asset running in
\* reverse, the discrete state overview: they now play forward from time 0
ForwardRestartedMidway ==
  /\ hist.ex.ran
  /\ hist.ex.t = TDen
  /\ hist.ex.pre = 0
  /\ hist.ex.playing
  /\ explodeState = 1
  /\ LoadedClips = {"Explode", "Lift"}
  /\ \A n \in LoadedClips : actions[n].time = 0 /\ ~actions[n].paused

\* C32: when the Reset button has been pressed and the stage effect it
\* caused has run, the stage is 0, the discrete explode state is overview,
\* every part has the opacity isolateIndex(null) gives it, none the dim
\* value, and the desired orbit target is the centroid.
ResetReturnsToOverview ==
  hist.op = "reset" =>
    /\ stage = 0
    /\ explodeState = 0
    /\ \A i \in DOMAIN parts :
         /\ partOpacity[i] = Max2(98, savedMatProps[i])
         /\ partOpacity[i] > 50
    /\ target_desired = centroid

\* Reset has been pressed in a later stage of the exploded "bed" asset: the
\* stage effect ran for stage 0 and the zoom-in is requested
ResetFromSection ==
  /\ hist.op = "reset"
  /\ hist.applied = 0
  /\ stage = 0
  /\ LoadedClips = {"Explode", "Lift"}
  /\ Len(parts) = 3
  /\ ZoomPending(0 - ZoomUnits, dist)
  /\ target_desired = centroid

\* C33: from the touch start that brings a second finger down until the
\* release that leaves fewer than two, that release included, no touch
\* event changes the stage.
PinchNeverChangesStage == [][pinchActive => stage' = stage]_vars

\* C34: when the loadGLB call started last has decoded its asset and the
\* callback of a call started before it, still in flight, then finds a root
\* too, no call remaining, the parts, the part names and the clips reported
\* stay those of the call started last.
LastStartedLoadWins ==
  [][\A l \in loads :
       (/\ loads = {l}
        /\ l.id < nLoads
        /\ currentModel = nLoads
        /\ hist'.op = "loadResolved"
        /\ hist'.ld = l.id
        /\ loads' = {}) =>
          /\ currentModel' = nLoads
          /\ parts' = parts
          /\ partNames' = partNames
          /\ clipNames' = clipNames]_vars

\* C35: the exploded-zoom flag is set exactly when the discrete explode
\* state is exploded.
ExplodedZoomTracksState == explodedZoomApplied <=> (explodeState = 1)

\* C36: when setExplode(0) has followed setExplode(1) with no other dolly
\* and no load in between, the distance setExplode(1) found lying a zoom
\* factor or more inside both limits, and the smooth zoom-in has run to its
\* end, the camera distance is the one setExplode(1) found.
ExplodePairRestoresDistance ==
  (/\ chain.undone
   /\ chain.d0 + ZoomUnits <= DistMax
   /\ chain.d0 - ZoomUnits >= DistMin
   /\ zoomAnimRAF = 0
   /\ rafQueue = {}) => dist = chain.d0

\* C37: once the component has unmounted, the viewer its init effect
\* started is eventually disposed of: the animation loop is stopped and the
\* scene holds no asset.
UnmountedViewerDisposed ==
  ~mounted ~> (~animationLoop /\ currentModel = 0)

WheelCooldownClears ==
  /\ wheelCooldown ~> (~wheelCooldown /\ sinceWheel >= WHEEL_COOLDOWN)
  /\ [][\A dy \in WheelDeltas(mobile) :
          (~wheelCooldown /\ Abs(dy) >= WheelThreshold /\ WheelEvent(dy, FALSE))
            => (wheelCooldown' /\ sinceWheel' = 0)]_vars

\* the timeout of the wheel event that took the stage from 1 to 2 has run:
\* the flag is clear, a full cooldown after that event
CooldownClearedAfterSecond ==
  /\ hist.g.kind = "wheel"
  /\ hist.g.from = 1
  /\ stage = 2
  /\ ~wheelCooldown
  /\ sinceWheel = WHEEL_COOLDOWN

====
